---- MODULE Spec2Model ----
(***************************************************************************)
(* Model of the ORCA input-file parser (src/src/orca_lsp/parser.py), of    *)
(* the keyword tables it uses (src/src/orca_lsp/keywords.py) and of the    *)
(* language server built on them (src/src/orca_lsp/server.py).             *)
(*                                                                         *)
(* Text is modelled as a sequence of one-character strings, so that the    *)
(* string operations of the code (strip, split, lower, substring search,   *)
(* the regular expressions, int(), float()) are computed character by      *)
(* character.  Line indices are 0-based as in the code; Line(ls, i) reads  *)
(* the i-th line of a list of lines.                                       *)
(***************************************************************************)
EXTENDS Integers, Sequences, FiniteSets, TLC

(***************************************************************************)
(* Bounds of the model                                                     *)
(***************************************************************************)
\* longest document, in lines, that a parse call is given
MaxLines == 4

\* longest document, in lines, given to a parser that is called repeatedly
MaxRepeatLines == 2

\* the most atoms of a geometry handed to _run_diagnostics directly
MaxAtoms == 2

\* the most open and change events the server handles
MaxEvents == 2

\* the most diagnostics a code-action request carries
MaxDiagnostics == 2

\* how far beyond the end of the line the column of a request may lie
MaxBeyond == 2

\* most lines of a document that holds a numeral too long for int()
MaxLimitLines == 3

(***************************************************************************)
(* Optional values: None is the empty sequence, Some(x) a one-element one  *)
(***************************************************************************)
None == <<>>

Some(x) == <<x>>

(***************************************************************************)
(* Characters                                                              *)
(***************************************************************************)
\* the characters str.strip(), str.split() and the \s of re treat as
\* whitespace, those for which str.isspace() holds: the blank, \t, \n, \r,
\* \f, the controls U+000B and U+001C to U+001F, and U+0085, U+00A0, U+1680.
\* (The sixteen others, U+2000 to U+200A, U+2028, U+2029, U+202F, U+205F and
\* U+3000, cannot be written in a string of this module, so no text of the
\* model holds one.)
WhitespaceChars ==
    {" ", "\t", "\n", "\r", "\f", "", "", "", "", "",
     "", " ", " "}

IsSpace(c) == c \in WhitespaceChars

\* the decimal digits (str.isdecimal(), the \d of re, the digits int() and
\* float() read) with their values: each row is the digits 0 to 9 of one script
DigitValue ==
    LET rows ==
          <<"0123456789",
            "۰۱۲۳۴۵۶۷۸۹",
            "߀߁߂߃߄߅߆߇߈߉",
            "০১২৩৪৫৬৭৮৯",
            "૦૧૨૩૪૫૬૭૮૯",
            "௦௧௨௩௪௫௬௭௮௯",
            "೦೧೨೩೪೫೬೭೮೯",
            "෦෧෨෩෪෫෬෭෮෯",
            "໐໑໒໓໔໕໖໗໘໙",
            "႐႑႒႓႔႕႖႗႘႙",
            "០១២៣៤៥៦៧៨៩",
            "᧐᧑᧒᧓᧔᧕᧖᧗᧘᧙",
            "᪀᪁᪂᪃᪄᪅᪆᪇᪈᪉",
            "᪐᪑᪒᪓᪔᪕᪖᪗᪘᪙",
            "᮰᮱᮲᮳᮴᮵᮶᮷᮸᮹",
            "꣐꣑꣒꣓꣔꣕꣖꣗꣘꣙",
            "꧐꧑꧒꧓꧔꧕꧖꧗꧘꧙",
            "꧰꧱꧲꧳꧴꧵꧶꧷꧸꧹",
            "꯰꯱꯲꯳꯴꯵꯶꯷꯸꯹">>
    IN  [c \in UNION {{SubSeq(rows[r], k, k) : k \in 1..10} : r \in DOMAIN rows} |->
            CHOOSE v \in 0..9 : \E r \in DOMAIN rows : SubSeq(rows[r], v + 1, v + 1) = c]

IsDigit(c) == c \in DOMAIN DigitValue

\* str.lower() of one character, for the characters it changes: a row pairs
\* a string of characters with the string of their lower-case counterparts
LowerOf ==
    LET rows ==
          <<<<"ABCDEFGHIJKLMNOPQRSTUVWXYZÀÁÂÃÄÅ",
              "abcdefghijklmnopqrstuvwxyzàáâãäå">>,
            <<"ÆÇÈÉÊËÌÍÎÏÐÑÒÓÔÕÖØÙÚÛÜÝÞƂƄƇƋƎƑƘƠ",
              "æçèéêëìíîïðñòóôõöøùúûüýþƃƅƈƌǝƒƙơ">>,
            <<"ƢƤƦƧƩƬƮƯƱƲƳƵƷƸƼǄǅǇǈǊǋǍǏǑǓǕǗǙǛǞǠǢ",
              "ƣƥʀƨʃƭʈưʊʋƴƶʒƹƽǆǆǉǉǌǌǎǐǒǔǖǘǚǜǟǡǣ">>,
            <<"ǤǦǨǪǬǮǱǲǴǶǷǸǺǼǾΆΈΉΊΌΎΏΑΒΓΔΕΖΗΘΙΚ",
              "ǥǧǩǫǭǯǳǳǵƕƿǹǻǽǿάέήίόύώαβγδεζηθικ">>,
            <<"ΛΜΝΞΟΠΡΣΤΥΦΧΨΩΪΫϏϘϚϜϞϠϢϤϦϨϪϬϮϴϷϹ",
              "λμνξοπρστυφχψωϊϋϗϙϛϝϟϡϣϥϧϩϫϭϯθϸϲ">>,
            <<"ϺҀҊҌҎҐҒҔҖҘҚҜҞҠҢҤҦҨҪҬҮҰҲҴҶҸҺҼҾӀӁӃ",
              "ϻҁҋҍҏґғҕҗҙқҝҟҡңҥҧҩҫҭүұҳҵҷҹһҽҿӏӂӄ">>,
            <<"ӅӇӉӋӍӐӒӔӖӘӚӜӞӠӢӤӦӨӪӬӮӰӲӴӶӸӺӼӾᎰᎱᎲ",
              "ӆӈӊӌӎӑӓӕӗәӛӝӟӡӣӥӧөӫӭӯӱӳӵӷӹӻӽӿꮀꮁꮂ">>,
            <<"ᎳᎴᎵᎶᎷᎸᎹᎺᎻᎼᎽᎾᎿᏀᏁᏂᏃᏄᏅᏆᏇᏈᏉᏊᏋᏌᏍᏎᏏᏐᏑᏒ",
              "ꮃꮄꮅꮆꮇꮈꮉꮊꮋꮌꮍꮎꮏꮐꮑꮒꮓꮔꮕꮖꮗꮘꮙꮚꮛꮜꮝꮞꮟꮠꮡꮢ">>,
            <<"ᏓᏔᏕᏖᏗᏘᏙᏚᏛᏜᏝᏞᏟᏠᏡᏢᏣᏤᏥᏦᏧᏨᏩᏪᏫᏬᏭᏮᏯᏰᏱᏲ",
              "ꮣꮤꮥꮦꮧꮨꮩꮪꮫꮬꮭꮮꮯꮰꮱꮲꮳꮴꮵꮶꮷꮸꮹꮺꮻꮼꮽꮾꮿᏸᏹᏺ">>,
            <<"ᏳᏴᏵᲐᲑᲒᲓᲔᲕᲖᲗᲘᲙᲚᲛᲜᲝᲞᲟᲠᲡᲢᲣᲤᲥᲦᲧᲨᲩᲪᲫᲬ",
              "ᏻᏼᏽაბგდევზთიკლმნოპჟრსტუფქღყშჩცძწ">>,
            <<"ᲭᲮᲯᲰᲱᲲᲳᲴᲵᲶᲷᲸᲹᲺᲽᲾᲿẀẂẄẆẈẊẌẎẐẒẔẞẠẢẤ",
              "ჭხჯჰჱჲჳჴჵჶჷჸჹჺჽჾჿẁẃẅẇẉẋẍẏẑẓẕßạảấ">>,
            <<"ẦẨẪẬẮẰẲẴẶẸẺẼẾỀỂỄỆỈỊỌỎỐỒỔỖỘỚỜỞỠỢỤ",
              "ầẩẫậắằẳẵặẹẻẽếềểễệỉịọỏốồổỗộớờởỡợụ">>,
            <<"ỦỨỪỬỮỰỲỴỶỸỺỼỾᾈᾉᾊᾋᾌᾍᾎᾏᾘᾙᾚᾛᾜᾝᾞᾟᾨᾩᾪ",
              "ủứừửữựỳỵỷỹỻỽỿᾀᾁᾂᾃᾄᾅᾆᾇᾐᾑᾒᾓᾔᾕᾖᾗᾠᾡᾢ">>,
            <<"ᾫᾬᾭᾮᾯᾸᾹᾼῌῘῙῨῩῬῼↃⒶⒷⒸⒹⒺⒻⒼⒽⒾⒿⓀⓁⓂⓃⓄⓅ",
              "ᾣᾤᾥᾦᾧᾰᾱᾳῃῐῑῠῡῥῳↄⓐⓑⓒⓓⓔⓕⓖⓗⓘⓙⓚⓛⓜⓝⓞⓟ">>,
            <<"ⓆⓇⓈⓉⓊⓋⓌⓍⓎⓏⲀⲂⲄⲆⲈⲊⲌⲎⲐⲒⲔⲖⲘⲚⲜⲞⲠⲢⲤⲦⲨⲪ",
              "ⓠⓡⓢⓣⓤⓥⓦⓧⓨⓩⲁⲃⲅⲇⲉⲋⲍⲏⲑⲓⲕⲗⲙⲛⲝⲟⲡⲣⲥⲧⲩⲫ">>,
            <<"ⲬⲮⲰⲲⲴⲶⲸⲺⲼⲾⳀⳂⳄⳆⳈⳊⳌⳎⳐⳒⳔⳖⳘⳚⳜⳞⳠⳢⳫⳭⳲꚀ",
              "ⲭⲯⲱⲳⲵⲷⲹⲻⲽⲿⳁⳃⳅⳇⳉⳋⳍⳏⳑⳓⳕⳗⳙⳛⳝⳟⳡⳣⳬⳮⳳꚁ">>,
            <<"ꚂꚄꚆꚈꚊꚌꚎꚐꚒꚔꚖꚘꚚꞀꞂꞄꞆꞋꞐꞒꞖꞘꞚꞜꞞꞠꞢꞤꞦꞨꞰꞱ",
              "ꚃꚅꚇꚉꚋꚍꚏꚑꚓꚕꚗꚙꚛꞁꞃꞅꞇꞌꞑꞓꞗꞙꞛꞝꞟꞡꞣꞥꞧꞩʞʇ">>,
            <<"ꞲꞴꞶꞸꞺꞼꞾꟀꟂꟄꟅꟆꟇꟉꟐꟖꟘꟵ",
              "ʝꞵꞷꞹꞻꞽꞿꟁꟃꞔʂᶎꟈꟊꟑꟗꟙꟶ">>>>
        other ==
          {<<"\\u0178", "ÿ">>, <<"Ɓ", "\\u0253">>, <<"Ɔ", "\\u0254">>,
           <<"Ɖ", "\\u0256">>, <<"Ɗ", "\\u0257">>, <<"Ə", "\\u0259">>,
           <<"Ɛ", "\\u025b">>, <<"Ɠ", "\\u0260">>, <<"Ɣ", "\\u0263">>,
           <<"Ɩ", "\\u0269">>, <<"Ɨ", "\\u0268">>, <<"Ɯ", "\\u026f">>,
           <<"Ɲ", "\\u0272">>, <<"Ɵ", "\\u0275">>, <<"\\u0220", "ƞ">>,
           <<"\\u023d", "ƚ">>, <<"\\u0243", "ƀ">>, <<"\\u0244", "ʉ">>,
           <<"\\u0245", "ʌ">>, <<"\\u037f", "ϳ">>, <<"Ͻ", "\\u037b">>,
           <<"Ͼ", "\\u037c">>, <<"Ͽ", "\\u037d">>, <<"\\u0412", "\\u0432">>,
           <<"\\u0414", "\\u0434">>, <<"\\u041e", "\\u043e">>,
           <<"\\u0421", "\\u0441">>, <<"\\u0422", "\\u0442">>,
           <<"\\u042a", "\\u044a">>, <<"\\u0462", "\\u0463">>,
           <<"\\u0535", "\\u0565">>, <<"\\u0550", "ր">>, <<"\\u0551", "ց">>,
           <<"\\u0552", "ւ">>, <<"\\u0553", "փ">>, <<"\\u0554", "ք">>,
           <<"\\u0555", "օ">>, <<"\\u0556", "ֆ">>, <<"Ⴀ", "\\u2d00">>,
           <<"Ⴁ", "\\u2d01">>, <<"Ⴂ", "\\u2d02">>, <<"Ⴃ", "\\u2d03">>,
           <<"Ⴄ", "\\u2d04">>, <<"Ⴅ", "\\u2d05">>, <<"Ⴆ", "\\u2d06">>,
           <<"Ⴇ", "\\u2d07">>, <<"Ⴈ", "\\u2d08">>, <<"Ⴉ", "\\u2d09">>,
           <<"Ⴊ", "\\u2d0a">>, <<"Ⴋ", "\\u2d0b">>, <<"Ⴌ", "\\u2d0c">>,
           <<"Ⴍ", "\\u2d0d">>, <<"Ⴎ", "\\u2d0e">>, <<"Ⴏ", "\\u2d0f">>,
           <<"Ⴐ", "\\u2d10">>, <<"Ⴑ", "\\u2d11">>, <<"Ⴒ", "\\u2d12">>,
           <<"Ⴓ", "\\u2d13">>, <<"Ⴔ", "\\u2d14">>, <<"Ⴕ", "\\u2d15">>,
           <<"Ⴖ", "\\u2d16">>, <<"Ⴗ", "\\u2d17">>, <<"Ⴘ", "\\u2d18">>,
           <<"Ⴙ", "\\u2d19">>, <<"Ⴚ", "\\u2d1a">>, <<"Ⴛ", "\\u2d1b">>,
           <<"Ⴜ", "\\u2d1c">>, <<"Ⴝ", "\\u2d1d">>, <<"Ⴞ", "\\u2d1e">>,
           <<"Ⴟ", "\\u2d1f">>, <<"Ⴠ", "\\u2d20">>, <<"Ⴡ", "\\u2d21">>,
           <<"Ⴢ", "\\u2d22">>, <<"Ⴣ", "\\u2d23">>, <<"Ⴤ", "\\u2d24">>,
           <<"Ⴥ", "\\u2d25">>, <<"Ⴧ", "\\u2d27">>, <<"Ⴭ", "\\u2d2d">>,
           <<"Ꭰ", "\\uab70">>, <<"Ꭱ", "\\uab71">>, <<"Ꭲ", "\\uab72">>,
           <<"Ꭳ", "\\uab73">>, <<"Ꭴ", "\\uab74">>, <<"Ꭵ", "\\uab75">>,
           <<"Ꭶ", "\\uab76">>, <<"Ꭷ", "\\uab77">>, <<"Ꭸ", "\\uab78">>,
           <<"Ꭹ", "\\uab79">>, <<"Ꭺ", "\\uab7a">>, <<"Ꭻ", "\\uab7b">>,
           <<"Ꭼ", "\\uab7c">>, <<"Ꭽ", "\\uab7d">>, <<"Ꭾ", "\\uab7e">>,
           <<"Ꭿ", "\\uab7f">>, <<"\\u1e60", "\\u1e61">>,
           <<"\\u1f08", "\\u1f00">>, <<"\\u1f09", "\\u1f01">>,
           <<"\\u1f0a", "\\u1f02">>, <<"\\u1f0b", "\\u1f03">>,
           <<"\\u1f0c", "\\u1f04">>, <<"\\u1f0d", "\\u1f05">>,
           <<"\\u1f0e", "\\u1f06">>, <<"\\u1f0f", "\\u1f07">>,
           <<"\\u1f28", "\\u1f20">>, <<"\\u1f29", "\\u1f21">>,
           <<"\\u1f2a", "\\u1f22">>, <<"\\u1f2b", "\\u1f23">>,
           <<"\\u1f2c", "\\u1f24">>, <<"\\u1f2d", "\\u1f25">>,
           <<"\\u1f2e", "\\u1f26">>, <<"\\u1f2f", "\\u1f27">>,
           <<"\\u1f68", "\\u1f60">>, <<"\\u1f69", "\\u1f61">>,
           <<"\\u1f6a", "\\u1f62">>, <<"\\u1f6b", "\\u1f63">>,
           <<"\\u1f6c", "\\u1f64">>, <<"\\u1f6d", "\\u1f65">>,
           <<"\\u1f6e", "\\u1f66">>, <<"\\u1f6f", "\\u1f67">>,
           <<"Ὰ", "\\u1f70">>, <<"Ά", "\\u1f71">>, <<"Ὲ", "\\u1f72">>,
           <<"Έ", "\\u1f73">>, <<"Ὴ", "\\u1f74">>, <<"Ή", "\\u1f75">>,
           <<"Ὶ", "\\u1f76">>, <<"Ί", "\\u1f77">>, <<"Ὺ", "\\u1f7a">>,
           <<"Ύ", "\\u1f7b">>, <<"Ὸ", "\\u1f78">>, <<"Ό", "\\u1f79">>,
           <<"Ὼ", "\\u1f7c">>, <<"Ώ", "\\u1f7d">>, <<"\\ua64a", "\\ua64b">>,
           <<"Ɥ", "\\u0265">>, <<"Ɦ", "\\u0266">>, <<"Ɜ", "\\u025c">>,
           <<"Ɡ", "\\u0261">>, <<"Ɬ", "\\u026c">>, <<"Ɪ", "\\u026a">>,
           <<"Ꭓ", "\\uab53">>}
        pairs == UNION {{<<SubSeq(rows[r][1], k, k), SubSeq(rows[r][2], k, k)>> :
                            k \in 1..Len(rows[r][1])} : r \in DOMAIN rows} \cup other
    IN  [c \in {p[1] : p \in pairs} |-> (CHOOSE p \in pairs : p[1] = c)[2]]

\* str.upper() of one character, for the characters it changes; the value is
\* a text, since upper() turns some characters into two or three
UpperOf ==
    LET rows ==
          <<<<"abcdefghijklmnopqrstuvwxyzµàáâãä",
              "ABCDEFGHIJKLMNOPQRSTUVWXYZΜÀÁÂÃÄ">>,
            <<"åæçèéêëìíîïðñòóôõöøùúûüýþƃƅƈƌƒƕƙ",
              "ÅÆÇÈÉÊËÌÍÎÏÐÑÒÓÔÕÖØÙÚÛÜÝÞƂƄƇƋƑǶƘ">>,
            <<"ơƣƥƨƭưƴƶƹƽƿǅǆǈǉǋǌǎǐǒǔǖǘǚǜǝǟǡǣǥǧǩ",
              "ƠƢƤƧƬƯƳƵƸƼǷǄǄǇǇǊǊǍǏǑǓǕǗǙǛƎǞǠǢǤǦǨ">>,
            <<"ǫǭǯǲǳǵǹǻǽǿʀʂʃʇʈʊʋʒʝʞάέήίαβγδεζηθ",
              "ǪǬǮǱǱǴǸǺǼǾƦꟅƩꞱƮƱƲƷꞲꞰΆΈΉΊΑΒΓΔΕΖΗΘ">>,
            <<"ικλμνξοπρςστυφχψωϊϋόύώϐϑϕϖϗϙϛϝϟϡ",
              "ΙΚΛΜΝΞΟΠΡΣΣΤΥΦΧΨΩΪΫΌΎΏΒΘΦΠϏϘϚϜϞϠ">>,
            <<"ϣϥϧϩϫϭϯϰϱϲϵϸϻҁҋҍҏґғҕҗҙқҝҟҡңҥҧҩҫҭ",
              "ϢϤϦϨϪϬϮΚΡϹΕϷϺҀҊҌҎҐҒҔҖҘҚҜҞҠҢҤҦҨҪҬ">>,
            <<"үұҳҵҷҹһҽҿӂӄӆӈӊӌӎӏӑӓӕӗәӛӝӟӡӣӥӧөӫӭ",
              "ҮҰҲҴҶҸҺҼҾӁӃӅӇӉӋӍӀӐӒӔӖӘӚӜӞӠӢӤӦӨӪӬ">>,
            <<"ӯӱӳӵӷӹӻӽӿაბგდევზთიკლმნოპჟრსტუფქღ",
              "ӮӰӲӴӶӸӺӼӾᲐᲑᲒᲓᲔᲕᲖᲗᲘᲙᲚᲛᲜᲝᲞᲟᲠᲡᲢᲣᲤᲥᲦ">>,
            <<"ყშჩცძწჭხჯჰჱჲჳჴჵჶჷჸჹჺჽჾჿᏸᏹᏺᏻᏼᏽᶎẁẃ",
              "ᲧᲨᲩᲪᲫᲬᲭᲮᲯᲰᲱᲲᲳᲴᲵᲶᲷᲸᲹᲺᲽᲾᲿᏰᏱᏲᏳᏴᏵꟆẀẂ">>,
            <<"ẅẇẉẋẍẏẑẓẕạảấầẩẫậắằẳẵặẹẻẽếềểễệỉịọ",
              "ẄẆẈẊẌẎẐẒẔẠẢẤẦẨẪẬẮẰẲẴẶẸẺẼẾỀỂỄỆỈỊỌ">>,
            <<"ỏốồổỗộớờởỡợụủứừửữựỳỵỷỹỻỽỿᾰᾱιῐῑῠῡ",
              "ỎỐỒỔỖỘỚỜỞỠỢỤỦỨỪỬỮỰỲỴỶỸỺỼỾᾸᾹΙῘῙῨῩ">>,
            <<"ῥↄⓐⓑⓒⓓⓔⓕⓖⓗⓘⓙⓚⓛⓜⓝⓞⓟⓠⓡⓢⓣⓤⓥⓦⓧⓨⓩⲁⲃⲅⲇ",
              "ῬↃⒶⒷⒸⒹⒺⒻⒼⒽⒾⒿⓀⓁⓂⓃⓄⓅⓆⓇⓈⓉⓊⓋⓌⓍⓎⓏⲀⲂⲄⲆ">>,
            <<"ⲉⲋⲍⲏⲑⲓⲕⲗⲙⲛⲝⲟⲡⲣⲥⲧⲩⲫⲭⲯⲱⲳⲵⲷⲹⲻⲽⲿⳁⳃⳅⳇ",
              "ⲈⲊⲌⲎⲐⲒⲔⲖⲘⲚⲜⲞⲠⲢⲤⲦⲨⲪⲬⲮⲰⲲⲴⲶⲸⲺⲼⲾⳀⳂⳄⳆ">>,
            <<"ⳉⳋⳍⳏⳑⳓⳕⳗⳙⳛⳝⳟⳡⳣⳬⳮⳳꚁꚃꚅꚇꚉꚋꚍꚏꚑꚓꚕꚗꚙꚛꞁ",
              "ⳈⳊⳌⳎⳐⳒⳔⳖⳘⳚⳜⳞⳠⳢⳫⳭⳲꚀꚂꚄꚆꚈꚊꚌꚎꚐꚒꚔꚖꚘꚚꞀ">>,
            <<"ꞃꞅꞇꞌꞑꞓꞔꞗꞙꞛꞝꞟꞡꞣꞥꞧꞩꞵꞷꞹꞻꞽꞿꟁꟃꟈꟊꟑꟗꟙꟶꮀ",
              "ꞂꞄꞆꞋꞐꞒꟄꞖꞘꞚꞜꞞꞠꞢꞤꞦꞨꞴꞶꞸꞺꞼꞾꟀꟂꟇꟉꟐꟖꟘꟵᎰ">>,
            <<"ꮁꮂꮃꮄꮅꮆꮇꮈꮉꮊꮋꮌꮍꮎꮏꮐꮑꮒꮓꮔꮕꮖꮗꮘꮙꮚꮛꮜꮝꮞꮟꮠ",
              "ᎱᎲᎳᎴᎵᎶᎷᎸᎹᎺᎻᎼᎽᎾᎿᏀᏁᏂᏃᏄᏅᏆᏇᏈᏉᏊᏋᏌᏍᏎᏏᏐ">>,
            <<"ꮡꮢꮣꮤꮥꮦꮧꮨꮩꮪꮫꮬꮭꮮꮯꮰꮱꮲꮳꮴꮵꮶꮷꮸꮹꮺꮻꮼꮽꮾꮿ",
              "ᏑᏒᏓᏔᏕᏖᏗᏘᏙᏚᏛᏜᏝᏞᏟᏠᏡᏢᏣᏤᏥᏦᏧᏨᏩᏪᏫᏬᏭᏮᏯ">>>>
        other ==
          {<<"ß", <<"S", "S">>>>, <<"ÿ", <<"\\u0178">>>>,
           <<"\\u017f", <<"S">>>>,
           <<"ƀ", <<"\\u0243">>>>, <<"ƚ", <<"\\u023d">>>>,
           <<"ƞ", <<"\\u0220">>>>, <<"ǰ", <<"J", "\\u030c">>>>,
           <<"\\u0253", <<"Ɓ">>>>, <<"\\u0254", <<"Ɔ">>>>,
           <<"\\u0256", <<"Ɖ">>>>, <<"\\u0257", <<"Ɗ">>>>,
           <<"\\u0259", <<"Ə">>>>, <<"\\u025b", <<"Ɛ">>>>,
           <<"\\u025c", <<"Ɜ">>>>, <<"\\u0260", <<"Ɠ">>>>,
           <<"\\u0261", <<"Ɡ">>>>, <<"\\u0263", <<"Ɣ">>>>,
           <<"\\u0265", <<"Ɥ">>>>, <<"\\u0266", <<"Ɦ">>>>,
           <<"\\u0268", <<"Ɨ">>>>, <<"\\u0269", <<"Ɩ">>>>,
           <<"\\u026a", <<"Ɪ">>>>, <<"\\u026c", <<"Ɬ">>>>,
           <<"\\u026f", <<"Ɯ">>>>, <<"\\u0272", <<"Ɲ">>>>,
           <<"\\u0275", <<"Ɵ">>>>, <<"ʉ", <<"\\u0244">>>>,
           <<"ʌ", <<"\\u0245">>>>, <<"\\u037b", <<"Ͻ">>>>,
           <<"\\u037c", <<"Ͼ">>>>, <<"\\u037d", <<"Ͽ">>>>,
           <<"ΐ", <<"Ι", "\\u0308", "\\u0301">>>>,
           <<"ΰ", <<"Υ", "\\u0308", "\\u0301">>>>, <<"ϳ", <<"\\u037f">>>>,
           <<"\\u0432", <<"\\u0412">>>>, <<"\\u0434", <<"\\u0414">>>>,
           <<"\\u043e", <<"\\u041e">>>>, <<"\\u0441", <<"\\u0421">>>>,
           <<"\\u0442", <<"\\u0422">>>>, <<"\\u044a", <<"\\u042a">>>>,
           <<"\\u0463", <<"\\u0462">>>>, <<"\\u0565", <<"\\u0535">>>>,
           <<"ր", <<"\\u0550">>>>, <<"ց", <<"\\u0551">>>>,
           <<"ւ", <<"\\u0552">>>>, <<"փ", <<"\\u0553">>>>,
           <<"ք", <<"\\u0554">>>>, <<"օ", <<"\\u0555">>>>,
           <<"ֆ", <<"\\u0556">>>>, <<"և", <<"\\u0535", "\\u0552">>>>,
           <<"ᲀ", <<"\\u0412">>>>, <<"ᲁ", <<"\\u0414">>>>,
           <<"ᲂ", <<"\\u041e">>>>, <<"ᲃ", <<"\\u0421">>>>,
           <<"ᲄ", <<"\\u0422">>>>, <<"ᲅ", <<"\\u0422">>>>,
           <<"ᲆ", <<"\\u042a">>>>, <<"ᲇ", <<"\\u0462">>>>,
           <<"ᲈ", <<"\\ua64a">>>>, <<"\\u1e61", <<"\\u1e60">>>>,
           <<"ẖ", <<"H", "\\u0331">>>>, <<"ẗ", <<"T", "\\u0308">>>>,
           <<"ẘ", <<"W", "\\u030a">>>>, <<"ẙ", <<"Y", "\\u030a">>>>,
           <<"ẚ", <<"A", "ʾ">>>>, <<"ẛ", <<"\\u1e60">>>>,
           <<"\\u1f00", <<"\\u1f08">>>>, <<"\\u1f01", <<"\\u1f09">>>>,
           <<"\\u1f02", <<"\\u1f0a">>>>, <<"\\u1f03", <<"\\u1f0b">>>>,
           <<"\\u1f04", <<"\\u1f0c">>>>, <<"\\u1f05", <<"\\u1f0d">>>>,
           <<"\\u1f06", <<"\\u1f0e">>>>, <<"\\u1f07", <<"\\u1f0f">>>>,
           <<"\\u1f20", <<"\\u1f28">>>>, <<"\\u1f21", <<"\\u1f29">>>>,
           <<"\\u1f22", <<"\\u1f2a">>>>, <<"\\u1f23", <<"\\u1f2b">>>>,
           <<"\\u1f24", <<"\\u1f2c">>>>, <<"\\u1f25", <<"\\u1f2d">>>>,
           <<"\\u1f26", <<"\\u1f2e">>>>, <<"\\u1f27", <<"\\u1f2f">>>>,
           <<"\\u1f60", <<"\\u1f68">>>>, <<"\\u1f61", <<"\\u1f69">>>>,
           <<"\\u1f62", <<"\\u1f6a">>>>, <<"\\u1f63", <<"\\u1f6b">>>>,
           <<"\\u1f64", <<"\\u1f6c">>>>, <<"\\u1f65", <<"\\u1f6d">>>>,
           <<"\\u1f66", <<"\\u1f6e">>>>, <<"\\u1f67", <<"\\u1f6f">>>>,
           <<"\\u1f70", <<"Ὰ">>>>, <<"\\u1f71", <<"Ά">>>>,
           <<"\\u1f72", <<"Ὲ">>>>, <<"\\u1f73", <<"Έ">>>>,
           <<"\\u1f74", <<"Ὴ">>>>, <<"\\u1f75", <<"Ή">>>>,
           <<"\\u1f76", <<"Ὶ">>>>, <<"\\u1f77", <<"Ί">>>>,
           <<"\\u1f78", <<"Ὸ">>>>, <<"\\u1f79", <<"Ό">>>>,
           <<"\\u1f7a", <<"Ὺ">>>>, <<"\\u1f7b", <<"Ύ">>>>,
           <<"\\u1f7c", <<"Ὼ">>>>, <<"\\u1f7d", <<"Ώ">>>>,
           <<"ᾀ", <<"\\u1f08", "Ι">>>>, <<"ᾁ", <<"\\u1f09", "Ι">>>>,
           <<"ᾂ", <<"\\u1f0a", "Ι">>>>, <<"ᾃ", <<"\\u1f0b", "Ι">>>>,
           <<"ᾄ", <<"\\u1f0c", "Ι">>>>, <<"ᾅ", <<"\\u1f0d", "Ι">>>>,
           <<"ᾆ", <<"\\u1f0e", "Ι">>>>, <<"ᾇ", <<"\\u1f0f", "Ι">>>>,
           <<"ᾈ", <<"\\u1f08", "Ι">>>>, <<"ᾉ", <<"\\u1f09", "Ι">>>>,
           <<"ᾊ", <<"\\u1f0a", "Ι">>>>, <<"ᾋ", <<"\\u1f0b", "Ι">>>>,
           <<"ᾌ", <<"\\u1f0c", "Ι">>>>, <<"ᾍ", <<"\\u1f0d", "Ι">>>>,
           <<"ᾎ", <<"\\u1f0e", "Ι">>>>, <<"ᾏ", <<"\\u1f0f", "Ι">>>>,
           <<"ᾐ", <<"\\u1f28", "Ι">>>>, <<"ᾑ", <<"\\u1f29", "Ι">>>>,
           <<"ᾒ", <<"\\u1f2a", "Ι">>>>, <<"ᾓ", <<"\\u1f2b", "Ι">>>>,
           <<"ᾔ", <<"\\u1f2c", "Ι">>>>, <<"ᾕ", <<"\\u1f2d", "Ι">>>>,
           <<"ᾖ", <<"\\u1f2e", "Ι">>>>, <<"ᾗ", <<"\\u1f2f", "Ι">>>>,
           <<"ᾘ", <<"\\u1f28", "Ι">>>>, <<"ᾙ", <<"\\u1f29", "Ι">>>>,
           <<"ᾚ", <<"\\u1f2a", "Ι">>>>, <<"ᾛ", <<"\\u1f2b", "Ι">>>>,
           <<"ᾜ", <<"\\u1f2c", "Ι">>>>, <<"ᾝ", <<"\\u1f2d", "Ι">>>>,
           <<"ᾞ", <<"\\u1f2e", "Ι">>>>, <<"ᾟ", <<"\\u1f2f", "Ι">>>>,
           <<"ᾠ", <<"\\u1f68", "Ι">>>>, <<"ᾡ", <<"\\u1f69", "Ι">>>>,
           <<"ᾢ", <<"\\u1f6a", "Ι">>>>, <<"ᾣ", <<"\\u1f6b", "Ι">>>>,
           <<"ᾤ", <<"\\u1f6c", "Ι">>>>, <<"ᾥ", <<"\\u1f6d", "Ι">>>>,
           <<"ᾦ", <<"\\u1f6e", "Ι">>>>, <<"ᾧ", <<"\\u1f6f", "Ι">>>>,
           <<"ᾨ", <<"\\u1f68", "Ι">>>>, <<"ᾩ", <<"\\u1f69", "Ι">>>>,
           <<"ᾪ", <<"\\u1f6a", "Ι">>>>, <<"ᾫ", <<"\\u1f6b", "Ι">>>>,
           <<"ᾬ", <<"\\u1f6c", "Ι">>>>, <<"ᾭ", <<"\\u1f6d", "Ι">>>>,
           <<"ᾮ", <<"\\u1f6e", "Ι">>>>, <<"ᾯ", <<"\\u1f6f", "Ι">>>>,
           <<"ᾲ", <<"Ὰ", "Ι">>>>, <<"ᾳ", <<"Α", "Ι">>>>,
           <<"ᾴ", <<"Ά", "Ι">>>>, <<"ᾶ", <<"Α", "\\u0342">>>>,
           <<"ᾷ", <<"Α", "\\u0342", "Ι">>>>, <<"ᾼ", <<"Α", "Ι">>>>,
           <<"ῂ", <<"Ὴ", "Ι">>>>, <<"ῃ", <<"Η", "Ι">>>>,
           <<"ῄ", <<"Ή", "Ι">>>>, <<"ῆ", <<"Η", "\\u0342">>>>,
           <<"ῇ", <<"Η", "\\u0342", "Ι">>>>, <<"ῌ", <<"Η", "Ι">>>>,
           <<"ῒ", <<"Ι", "\\u0308", "\\u0300">>>>,
           <<"ΐ", <<"Ι", "\\u0308", "\\u0301">>>>,
           <<"ῖ", <<"Ι", "\\u0342">>>>,
           <<"ῗ", <<"Ι", "\\u0308", "\\u0342">>>>,
           <<"ῢ", <<"Υ", "\\u0308", "\\u0300">>>>,
           <<"ΰ", <<"Υ", "\\u0308", "\\u0301">>>>,
           <<"ῤ", <<"Ρ", "\\u0313">>>>, <<"ῦ", <<"Υ", "\\u0342">>>>,
           <<"ῧ", <<"Υ", "\\u0308", "\\u0342">>>>, <<"ῲ", <<"Ὼ", "Ι">>>>,
           <<"ῳ", <<"Ω", "Ι">>>>, <<"ῴ", <<"Ώ", "Ι">>>>,
           <<"ῶ", <<"Ω", "\\u0342">>>>, <<"ῷ", <<"Ω", "\\u0342", "Ι">>>>,
           <<"ῼ", <<"Ω", "Ι">>>>, <<"\\u2d00", <<"Ⴀ">>>>,
           <<"\\u2d01", <<"Ⴁ">>>>, <<"\\u2d02", <<"Ⴂ">>>>,
           <<"\\u2d03", <<"Ⴃ">>>>, <<"\\u2d04", <<"Ⴄ">>>>,
           <<"\\u2d05", <<"Ⴅ">>>>, <<"\\u2d06", <<"Ⴆ">>>>,
           <<"\\u2d07", <<"Ⴇ">>>>, <<"\\u2d08", <<"Ⴈ">>>>,
           <<"\\u2d09", <<"Ⴉ">>>>, <<"\\u2d0a", <<"Ⴊ">>>>,
           <<"\\u2d0b", <<"Ⴋ">>>>, <<"\\u2d0c", <<"Ⴌ">>>>,
           <<"\\u2d0d", <<"Ⴍ">>>>, <<"\\u2d0e", <<"Ⴎ">>>>,
           <<"\\u2d0f", <<"Ⴏ">>>>, <<"\\u2d10", <<"Ⴐ">>>>,
           <<"\\u2d11", <<"Ⴑ">>>>, <<"\\u2d12", <<"Ⴒ">>>>,
           <<"\\u2d13", <<"Ⴓ">>>>, <<"\\u2d14", <<"Ⴔ">>>>,
           <<"\\u2d15", <<"Ⴕ">>>>, <<"\\u2d16", <<"Ⴖ">>>>,
           <<"\\u2d17", <<"Ⴗ">>>>, <<"\\u2d18", <<"Ⴘ">>>>,
           <<"\\u2d19", <<"Ⴙ">>>>, <<"\\u2d1a", <<"Ⴚ">>>>,
           <<"\\u2d1b", <<"Ⴛ">>>>, <<"\\u2d1c", <<"Ⴜ">>>>,
           <<"\\u2d1d", <<"Ⴝ">>>>, <<"\\u2d1e", <<"Ⴞ">>>>,
           <<"\\u2d1f", <<"Ⴟ">>>>, <<"\\u2d20", <<"Ⴠ">>>>,
           <<"\\u2d21", <<"Ⴡ">>>>, <<"\\u2d22", <<"Ⴢ">>>>,
           <<"\\u2d23", <<"Ⴣ">>>>, <<"\\u2d24", <<"Ⴤ">>>>,
           <<"\\u2d25", <<"Ⴥ">>>>, <<"\\u2d27", <<"Ⴧ">>>>,
           <<"\\u2d2d", <<"Ⴭ">>>>, <<"\\ua64b", <<"\\ua64a">>>>,
           <<"\\uab53", <<"Ꭓ">>>>, <<"\\uab70", <<"Ꭰ">>>>,
           <<"\\uab71", <<"Ꭱ">>>>, <<"\\uab72", <<"Ꭲ">>>>,
           <<"\\uab73", <<"Ꭳ">>>>, <<"\\uab74", <<"Ꭴ">>>>,
           <<"\\uab75", <<"Ꭵ">>>>, <<"\\uab76", <<"Ꭶ">>>>,
           <<"\\uab77", <<"Ꭷ">>>>, <<"\\uab78", <<"Ꭸ">>>>,
           <<"\\uab79", <<"Ꭹ">>>>, <<"\\uab7a", <<"Ꭺ">>>>,
           <<"\\uab7b", <<"Ꭻ">>>>, <<"\\uab7c", <<"Ꭼ">>>>,
           <<"\\uab7d", <<"Ꭽ">>>>, <<"\\uab7e", <<"Ꭾ">>>>,
           <<"\\uab7f", <<"Ꭿ">>>>}
        pairs == UNION {{<<SubSeq(rows[r][1], k, k), <<SubSeq(rows[r][2], k, k)>>>> :
                            k \in 1..Len(rows[r][1])} : r \in DOMAIN rows} \cup other
    IN  [c \in {p[1] : p \in pairs} |-> (CHOOSE p \in pairs : p[1] = c)[2]]

\* the characters for which str.isalnum() holds: letters, decimal digits and
\* the other numeric characters
Alnum ==
    LET bmp ==
          <<"0123456789ABCDEFGHIJKLMNOPQRSTUVWXYZabcdefghijklmnopqrstuvwxyzª²",
            "³µ¹º¼½¾ÀÁÂÃÄÅÆÇÈÉÊËÌÍÎÏÐÑÒÓÔÕÖØÙÚÛÜÝÞßàáâãäåæçèéêëìíîïðñòóôõöøùú",
            "ûüýþÿƀƁƂƃƄƅƆƇƈƉƊƋƌƍƎƏƐƑƒƓƔƕƖƗƘƙƚƛƜƝƞƟƠơƢƣƤƥƦƧƨƩƪƫƬƭƮƯưƱƲƳƴƵƶƷƸƹƺ",
            "ƻƼƽƾƿǀǁǂǃǄǅǆǇǈǉǊǋǌǍǎǏǐǑǒǓǔǕǖǗǘǙǚǛǜǝǞǟǠǡǢǣǤǥǦǧǨǩǪǫǬǭǮǯǰǱǲǳǴǵǶǷǸǹǺ",
            "ǻǼǽǾǿʀʁʂʃʄʅʆʇʈʉʊʋʌʍʎʏʐʑʒʓʔʕʖʗʘʙʚʛʜʝʞʟʠʡʢʣʤʥʦʧʨʩʪʫʬʭʮʯʰʱʲʳʴʵʶʷʸʹʺ",
            "ʻʼʽʾʿˀˁˆˇˈˉˊˋˌˍˎˏːˑˠˡˢˣˤˬˮΆΈΉΊΌΎΏΐΑΒΓΔΕΖΗΘΙΚΛΜΝΞΟΠΡΣΤΥΦΧΨΩΪΫάέήί",
            "ΰαβγδεζηθικλμνξοπρςστυφχψωϊϋόύώϏϐϑϒϓϔϕϖϗϘϙϚϛϜϝϞϟϠϡϢϣϤϥϦϧϨϩϪϫϬϭϮϯ",
            "ϰϱϲϳϴϵϷϸϹϺϻϼϽϾϿҀҁҊҋҌҍҎҏҐґҒғҔҕҖҗҘҙҚқҜҝҞҟҠҡҢңҤҥҦҧҨҩҪҫҬҭҮүҰұҲҳҴҵҶҷҸ",
            "ҹҺһҼҽҾҿӀӁӂӃӄӅӆӇӈӉӊӋӌӍӎӏӐӑӒӓӔӕӖӗӘәӚӛӜӝӞӟӠӡӢӣӤӥӦӧӨөӪӫӬӭӮӯӰӱӲӳӴӵӶӷӸ",
            "ӹӺӻӼӽӾӿրցւփքօֆևֈאבגדהוזחטיךכלםמןנסעףפץצקרשתׯװױײڀځڂڃڄڅچڇڈډڊڋڌڍڎڏڐ",
            "ڑڒړڔڕږڗژڙښڛڜڝڞڟڠڡڢڣڤڥڦڧڨکڪګڬڭڮگڰڱڲڳڴڵڶڷڸڹںڻڼڽھڿۀہۂۃۄۅۆۇۈۉۊۋیۍێۏې",
            "ۑےۓەۥۦۮۯ۰۱۲۳۴۵۶۷۸۹ۺۻۼۿހށނރބޅކއވމފދތލގޏސޑޒޓޔޕޖޗޘޙޚޛޜޝޞޟޠޡޢޣޤޥޱ߀߁߂",
            "߃߄߅߆߇߈߉ߊߋߌߍߎߏߐߑߒߓߔߕߖߗߘߙߚߛߜߝߞߟߠߡߢߣߤߥߦߧߨߩߪߴߵߺࢀࢁࢂࢃࢄࢅࢆࢇࢉࢊࢋࢌࢍࢎࢠࢡࢢࢣࢤࢥࢦ",
            "ࢧࢨࢩࢪࢫࢬࢭࢮࢯࢰࢱࢲࢳࢴࢵࢶࢷࢸࢹࢺࢻࢼࢽࢾࢿࣀࣁࣂࣃࣄࣅࣆࣇࣈࣉঀঅআইঈউঊঋঌএঐওঔকখগঘঙচছজঝঞটঠডঢণত",
            "থদধনপফবভমযরলশষসহঽৎড়ঢ়য়ৠৡ০১২৩৪৫৬৭৮৯ৰৱ৴৵৶৷৸৹ৼઅઆઇઈઉઊઋઌઍએઐઑઓઔકખગઘઙચછજ",
            "ઝઞટઠડઢણતથદધનપફબભમયરલળવશષસહઽૐૠૡ૦૧૨૩૪૫૬૭૮૯ૹஃஅஆஇஈஉஊஎஏஐஒஓஔகஙசஜஞடணதநன",
            "பமயரறலளழவஶஷஸஹௐ௦௧௨௩௪௫௬௭௮௯௰௱௲ಀಅಆಇಈಉಊಋಌಎಏಐಒಓಔಕಖಗಘಙಚಛಜಝಞಟಠಡಢಣತಥದಧನಪಫ",
            "ಬಭಮಯರಱಲಳವಶಷಸಹಽೝೞೠೡ೦೧೨೩೪೫೬೭೮೯ೱೲඅආඇඈඉඊඋඌඍඎඏඐඑඒඓඔඕඖකඛගඝඞඟචඡජඣඤඥඦටඨඩ",
            "ඪණඬතථදධනඳපඵබභමඹයරලවශෂසහළෆ෦෧෨෩෪෫෬෭෮෯ກຂຄຆງຈຉຊຌຍຎຏຐຑຒຓດຕຖທຘນບປຜຝພຟຠ",
            "ມຢຣລວຨຩສຫຬອຮຯະາຳຽເແໂໃໄໆ໐໑໒໓໔໕໖໗໘໙ໜໝໞໟྈྉྊྋྌႀႁႎ႐႑႒႓႔႕႖႗႘႙ႠႡႢႣႤႥႦႧႨ",
            "ႩႪႫႬႭႮႯႰႱႲႳႴႵႶႷႸႹႺႻႼႽႾႿჀჁჂჃჄჅჇჍაბგდევზთიკლმნოპჟრსტუფქღყშჩცძწჭხჯჰ",
            "ჱჲჳჴჵჶჷჸჹჺჼჽჾჿᆀᆁᆂᆃᆄᆅᆆᆇᆈᆉᆊᆋᆌᆍᆎᆏᆐᆑᆒᆓᆔᆕᆖᆗᆘᆙᆚᆛᆜᆝᆞᆟᆠᆡᆢᆣᆤᆥᆦᆧᆨᆩᆪᆫᆬᆭᆮᆯᆰᆱ",
            "ᆲᆳᆴᆵᆶᆷᆸᆹᆺᆻᆼᆽᆾᆿᇀᇁᇂᇃᇄᇅᇆᇇᇈᇉᇊᇋᇌᇍᇎᇏᇐᇑᇒᇓᇔᇕᇖᇗᇘᇙᇚᇛᇜᇝᇞᇟᇠᇡᇢᇣᇤᇥᇦᇧᇨᇩᇪᇫᇬᇭᇮᇯᇰᇱ",
            "ᇲᇳᇴᇵᇶᇷᇸᇹᇺᇻᇼᇽᇾᇿኀኁኂኃኄኅኆኇኈኊኋኌኍነኑኒናኔንኖኗኘኙኚኛኜኝኞኟአኡኢኣኤእኦኧከኩኪካኬክኮኯኰኲኳኴኵ",
            "ኸኹኺኻኼኽኾዀዂዃዄዅወዉዊዋዌውዎዏዐዑዒዓዔዕዖዘዙዚዛዜዝዞዟዠዡዢዣዤዥዦዧየዩዪያዬይዮዯደዱዲዳዴድዶዷዸዹዺዻዼ",
            "ዽዾዿᎀᎁᎂᎃᎄᎅᎆᎇᎈᎉᎊᎋᎌᎍᎎᎏᎠᎡᎢᎣᎤᎥᎦᎧᎨᎩᎪᎫᎬᎭᎮᎯᎰᎱᎲᎳᎴᎵᎶᎷᎸᎹᎺᎻᎼᎽᎾᎿᏀᏁᏂᏃᏄᏅᏆᏇᏈᏉᏊᏋᏌ",
            "ᏍᏎᏏᏐᏑᏒᏓᏔᏕᏖᏗᏘᏙᏚᏛᏜᏝᏞᏟᏠᏡᏢᏣᏤᏥᏦᏧᏨᏩᏪᏫᏬᏭᏮᏯᏰᏱᏲᏳᏴᏵᏸᏹᏺᏻᏼᏽᒀᒁᒂᒃᒄᒅᒆᒇᒈᒉᒊᒋᒌᒍᒎᒏᒐ",
            "ᒑᒒᒓᒔᒕᒖᒗᒘᒙᒚᒛᒜᒝᒞᒟᒠᒡᒢᒣᒤᒥᒦᒧᒨᒩᒪᒫᒬᒭᒮᒯᒰᒱᒲᒳᒴᒵᒶᒷᒸᒹᒺᒻᒼᒽᒾᒿᓀᓁᓂᓃᓄᓅᓆᓇᓈᓉᓊᓋᓌᓍᓎᓏᓐ",
            "ᓑᓒᓓᓔᓕᓖᓗᓘᓙᓚᓛᓜᓝᓞᓟᓠᓡᓢᓣᓤᓥᓦᓧᓨᓩᓪᓫᓬᓭᓮᓯᓰᓱᓲᓳᓴᓵᓶᓷᓸᓹᓺᓻᓼᓽᓾᓿᖀᖁᖂᖃᖄᖅᖆᖇᖈᖉᖊᖋᖌᖍᖎᖏᖐ",
            "ᖑᖒᖓᖔᖕᖖᖗᖘᖙᖚᖛᖜᖝᖞᖟᖠᖡᖢᖣᖤᖥᖦᖧᖨᖩᖪᖫᖬᖭᖮᖯᖰᖱᖲᖳᖴᖵᖶᖷᖸᖹᖺᖻᖼᖽᖾᖿᗀᗁᗂᗃᗄᗅᗆᗇᗈᗉᗊᗋᗌᗍᗎᗏᗐ",
            "ᗑᗒᗓᗔᗕᗖᗗᗘᗙᗚᗛᗜᗝᗞᗟᗠᗡᗢᗣᗤᗥᗦᗧᗨᗩᗪᗫᗬᗭᗮᗯᗰᗱᗲᗳᗴᗵᗶᗷᗸᗹᗺᗻᗼᗽᗾᗿᚁᚂᚃᚄᚅᚆᚇᚈᚉᚊᚋᚌᚍᚎᚏᚐᚑ",
            "ᚒᚓᚔᚕᚖᚗᚘᚙᚚᚠᚡᚢᚣᚤᚥᚦᚧᚨᚩᚪᚫᚬᚭᚮᚯᚰᚱᚲᚳᚴᚵᚶᚷᚸᚹᚺᚻᚼᚽᚾᚿᛀᛁᛂᛃᛄᛅᛆᛇᛈᛉᛊᛋᛌᛍᛎᛏᛐᛑᛒᛓᛔᛕᛖ",
            "ᛗᛘᛙᛚᛛᛜᛝᛞᛟᛠᛡᛢᛣᛤᛥᛦᛧᛨᛩᛪᛮᛯᛰᛱᛲᛳᛴᛵᛶᛷᛸកខគឃងចឆជឈញដឋឌឍណតថទធនបផពភមយរលវឝឞសហ",
            "ឡអឣឤឥឦឧឨឩឪឫឬឭឮឯឰឱឲឳៗៜ០១២៣៤៥៦៧៨៩៰៱៲៳៴៵៶៷៸៹ᢀᢁᢂᢃᢄᢇᢈᢉᢊᢋᢌᢍᢎᢏᢐᢑᢒᢓᢔᢕᢖᢗᢘ",
            "ᢙᢚᢛᢜᢝᢞᢟᢠᢡᢢᢣᢤᢥᢦᢧᢨᢪᢰᢱᢲᢳᢴᢵᢶᢷᢸᢹᢺᢻᢼᢽᢾᢿᣀᣁᣂᣃᣄᣅᣆᣇᣈᣉᣊᣋᣌᣍᣎᣏᣐᣑᣒᣓᣔᣕᣖᣗᣘᣙᣚᣛᣜᣝᣞ",
            "ᣟᣠᣡᣢᣣᣤᣥᣦᣧᣨᣩᣪᣫᣬᣭᣮᣯᣰᣱᣲᣳᣴᣵᦀᦁᦂᦃᦄᦅᦆᦇᦈᦉᦊᦋᦌᦍᦎᦏᦐᦑᦒᦓᦔᦕᦖᦗᦘᦙᦚᦛᦜᦝᦞᦟᦠᦡᦢᦣᦤᦥᦦᦧᦨ",
            "ᦩᦪᦫᦰᦱᦲᦳᦴᦵᦶᦷᦸᦹᦺᦻᦼᦽᦾᦿᧀᧁᧂᧃᧄᧅᧆᧇᧈᧉ᧐᧑᧒᧓᧔᧕᧖᧗᧘᧙᧚᪀᪁᪂᪃᪄᪅᪆᪇᪈᪉᪐᪑᪒᪓᪔᪕᪖᪗᪘᪙ᪧᮃᮄᮅ",
            "ᮆᮇᮈᮉᮊᮋᮌᮍᮎᮏᮐᮑᮒᮓᮔᮕᮖᮗᮘᮙᮚᮛᮜᮝᮞᮟᮠᮮᮯ᮰᮱᮲᮳᮴᮵᮶᮷᮸᮹ᮺᮻᮼᮽᮾᮿᯀᯁᯂᯃᯄᯅᯆᯇᯈᯉᯊᯋᯌᯍᯎᯏᯐᯑᯒ",
            "ᯓᯔᯕᯖᯗᯘᯙᯚᯛᯜᯝᯞᯟᯠᯡᯢᯣᯤᯥᲀᲁᲂᲃᲄᲅᲆᲇᲈᲐᲑᲒᲓᲔᲕᲖᲗᲘᲙᲚᲛᲜᲝᲞᲟᲠᲡᲢᲣᲤᲥᲦᲧᲨᲩᲪᲫᲬᲭᲮᲯᲰᲱᲲᲳ",
            "ᲴᲵᲶᲷᲸᲹᲺᲽᲾᲿᳩᳪᳫᳬᳮᳯᳰᳱᳲᳳᳵᳶᳺᶀᶁᶂᶃᶄᶅᶆᶇᶈᶉᶊᶋᶌᶍᶎᶏᶐᶑᶒᶓᶔᶕᶖᶗᶘᶙᶚᶛᶜᶝᶞᶟᶠᶡᶢᶣᶤᶥᶦᶧᶨ",
            "ᶩᶪᶫᶬᶭᶮᶯᶰᶱᶲᶳᶴᶵᶶᶷᶸᶹᶺᶻᶼᶽᶾᶿẀẁẂẃẄẅẆẇẈẉẊẋẌẍẎẏẐẑẒẓẔẕẖẗẘẙẚẛẜẝẞẟẠạẢảẤấẦầẨ",
            "ẩẪẫẬậẮắẰằẲẳẴẵẶặẸẹẺẻẼẽẾếỀềỂểỄễỆệỈỉỊịỌọỎỏỐốỒồỔổỖỗỘộỚớỜờỞởỠỡỢợỤụỦủỨ",
            "ứỪừỬửỮữỰựỲỳỴỵỶỷỸỹỺỻỼỽỾỿᾀᾁᾂᾃᾄᾅᾆᾇᾈᾉᾊᾋᾌᾍᾎᾏᾐᾑᾒᾓᾔᾕᾖᾗᾘᾙᾚᾛᾜᾝᾞᾟᾠᾡᾢᾣᾤᾥᾦᾧᾨ",
            "ᾩᾪᾫᾬᾭᾮᾯᾰᾱᾲᾳᾴᾶᾷᾸᾹᾺΆᾼιῂῃῄῆῇῈΈῊΉῌῐῑῒΐῖῗῘῙῚΊῠῡῢΰῤῥῦῧῨῩῪΎῬῲῳῴῶῷῸΌῺΏῼ₀",
            "₁₂₃₄₅₆₇₈₉ₐₑₒₓₔₕₖₗₘₙₚₛₜↀↁↂↃↄↅↆↇↈ↉⒀⒁⒂⒃⒄⒅⒆⒇⒈⒉⒊⒋⒌⒍⒎⒏⒐⒑⒒⒓⒔⒕⒖⒗⒘⒙⒚⒛⓪⓫⓬⓭",
            "⓮⓯⓰⓱⓲⓳⓴⓵⓶⓷⓸⓹⓺⓻⓼⓽⓾⓿➀➁➂➃➄➅➆➇➈➉➊➋➌➍➎➏➐➑➒➓ⲀⲁⲂⲃⲄⲅⲆⲇⲈⲉⲊⲋⲌⲍⲎⲏⲐⲑⲒⲓⲔⲕⲖⲗⲘⲙ",
            "ⲚⲛⲜⲝⲞⲟⲠⲡⲢⲣⲤⲥⲦⲧⲨⲩⲪⲫⲬⲭⲮⲯⲰⲱⲲⲳⲴⲵⲶⲷⲸⲹⲺⲻⲼⲽⲾⲿⳀⳁⳂⳃⳄⳅⳆⳇⳈⳉⳊⳋⳌⳍⳎⳏⳐⳑⳒⳓⳔⳕⳖⳗⳘⳙ",
            "ⳚⳛⳜⳝⳞⳟⳠⳡⳢⳣⳤⳫⳬⳭⳮⳲⳳ⳽ⶀⶁⶂⶃⶄⶅⶆⶇⶈⶉⶊⶋⶌⶍⶎⶏⶐⶑⶒⶓⶔⶕⶖⶠⶡⶢⶣⶤⶥⶦⶨⶩⶪⶫⶬⶭⶮⶰⶱⶲⶳⶴⶵⶶⶸⶹ",
            "ⶺⶻⶼⶽⶾⷀⷁⷂⷃⷄⷅⷆⷈⷉⷊⷋⷌⷍⷎⷐⷑⷒⷓⷔⷕⷖⷘⷙⷚⷛⷜⷝⷞむめもゃやゅゆょよらりるれろゎわゐゑをんゔゕゖゝゞゟァアィイゥ",
            "ウェエォオカガキギクグケゲコゴサザシジスズセゼソゾタダチヂッツヅテデトドナニヌネノハバパヒビピフブプヘベペホボポマミムメモャヤュ",
            "ユョヨラリルレロヮワヰヱヲンヴヵヶヷヸヹヺーヽヾヿㆀㆁㆂㆃㆄㆅㆆㆇㆈㆉㆊㆋㆌㆍㆎ㆒㆓㆔㆕ㆠㆡㆢㆣㆤㆥㆦㆧㆨㆩㆪㆫㆬㆭㆮㆯㆰㆱㆲㆳ",
            "ㆴㆵㆶㆷㆸㆹㆺㆻㆼㆽㆾㆿㇰㇱㇲㇳㇴㇵㇶㇷㇸㇹㇺㇻㇼㇽㇾㇿ㊀㊁㊂㊃㊄㊅㊆㊇㊈㊉㊱㊲㊳㊴㊵㊶㊷㊸㊹㊺㊻㊼㊽㊾㊿㒀㒁㒂㒃㒄㒅㒆㒇㒈㒉㒊",
            "㒋㒌㒍㒎㒏㒐㒑㒒㒓㒔㒕㒖㒗㒘㒙㒚㒛㒜㒝㒞㒟㒠㒡㒢㒣㒤㒥㒦㒧㒨㒩㒪㒫㒬㒭㒮㒯㒰㒱㒲㒳㒴㒵㒶㒷㒸㒹㒺㒻㒼㒽㒾㒿㓀㓁㓂㓃㓄㓅㓆㓇㓈㓉㓊",
            "㓋㓌㓍㓎㓏㓐㓑㓒㓓㓔㓕㓖㓗㓘㓙㓚㓛㓜㓝㓞㓟㓠㓡㓢㓣㓤㓥㓦㓧㓨㓩㓪㓫㓬㓭㓮㓯㓰㓱㓲㓳㓴㓵㓶㓷㓸㓹㓺㓻㓼㓽㓾㓿㖀㖁㖂㖃㖄㖅㖆㖇㖈㖉㖊",
            "㖋㖌㖍㖎㖏㖐㖑㖒㖓㖔㖕㖖㖗㖘㖙㖚㖛㖜㖝㖞㖟㖠㖡㖢㖣㖤㖥㖦㖧㖨㖩㖪㖫㖬㖭㖮㖯㖰㖱㖲㖳㖴㖵㖶㖷㖸㖹㖺㖻㖼㖽㖾㖿㗀㗁㗂㗃㗄㗅㗆㗇㗈㗉㗊",
            "㗋㗌㗍㗎㗏㗐㗑㗒㗓㗔㗕㗖㗗㗘㗙㗚㗛㗜㗝㗞㗟㗠㗡㗢㗣㗤㗥㗦㗧㗨㗩㗪㗫㗬㗭㗮㗯㗰㗱㗲㗳㗴㗵㗶㗷㗸㗹㗺㗻㗼㗽㗾㗿㚀㚁㚂㚃㚄㚅㚆㚇㚈㚉㚊",
            "㚋㚌㚍㚎㚏㚐㚑㚒㚓㚔㚕㚖㚗㚘㚙㚚㚛㚜㚝㚞㚟㚠㚡㚢㚣㚤㚥㚦㚧㚨㚩㚪㚫㚬㚭㚮㚯㚰㚱㚲㚳㚴㚵㚶㚷㚸㚹㚺㚻㚼㚽㚾㚿㛀㛁㛂㛃㛄㛅㛆㛇㛈㛉㛊",
            "㛋㛌㛍㛎㛏㛐㛑㛒㛓㛔㛕㛖㛗㛘㛙㛚㛛㛜㛝㛞㛟㛠㛡㛢㛣㛤㛥㛦㛧㛨㛩㛪㛫㛬㛭㛮㛯㛰㛱㛲㛳㛴㛵㛶㛷㛸㛹㛺㛻㛼㛽㛾㛿㞀㞁㞂㞃㞄㞅㞆㞇㞈㞉㞊",
            "㞋㞌㞍㞎㞏㞐㞑㞒㞓㞔㞕㞖㞗㞘㞙㞚㞛㞜㞝㞞㞟㞠㞡㞢㞣㞤㞥㞦㞧㞨㞩㞪㞫㞬㞭㞮㞯㞰㞱㞲㞳㞴㞵㞶㞷㞸㞹㞺㞻㞼㞽㞾㞿㟀㟁㟂㟃㟄㟅㟆㟇㟈㟉㟊",
            "㟋㟌㟍㟎㟏㟐㟑㟒㟓㟔㟕㟖㟗㟘㟙㟚㟛㟜㟝㟞㟟㟠㟡㟢㟣㟤㟥㟦㟧㟨㟩㟪㟫㟬㟭㟮㟯㟰㟱㟲㟳㟴㟵㟶㟷㟸㟹㟺㟻㟼㟽㟾㟿㢀㢁㢂㢃㢄㢅㢆㢇㢈㢉㢊",
            "㢋㢌㢍㢎㢏㢐㢑㢒㢓㢔㢕㢖㢗㢘㢙㢚㢛㢜㢝㢞㢟㢠㢡㢢㢣㢤㢥㢦㢧㢨㢩㢪㢫㢬㢭㢮㢯㢰㢱㢲㢳㢴㢵㢶㢷㢸㢹㢺㢻㢼㢽㢾㢿㣀㣁㣂㣃㣄㣅㣆㣇㣈㣉㣊",
            "㣋㣌㣍㣎㣏㣐㣑㣒㣓㣔㣕㣖㣗㣘㣙㣚㣛㣜㣝㣞㣟㣠㣡㣢㣣㣤㣥㣦㣧㣨㣩㣪㣫㣬㣭㣮㣯㣰㣱㣲㣳㣴㣵㣶㣷㣸㣹㣺㣻㣼㣽㣾㣿㦀㦁㦂㦃㦄㦅㦆㦇㦈㦉㦊",
            "㦋㦌㦍㦎㦏㦐㦑㦒㦓㦔㦕㦖㦗㦘㦙㦚㦛㦜㦝㦞㦟㦠㦡㦢㦣㦤㦥㦦㦧㦨㦩㦪㦫㦬㦭㦮㦯㦰㦱㦲㦳㦴㦵㦶㦷㦸㦹㦺㦻㦼㦽㦾㦿㧀㧁㧂㧃㧄㧅㧆㧇㧈㧉㧊",
            "㧋㧌㧍㧎㧏㧐㧑㧒㧓㧔㧕㧖㧗㧘㧙㧚㧛㧜㧝㧞㧟㧠㧡㧢㧣㧤㧥㧦㧧㧨㧩㧪㧫㧬㧭㧮㧯㧰㧱㧲㧳㧴㧵㧶㧷㧸㧹㧺㧻㧼㧽㧾㧿㪀㪁㪂㪃㪄㪅㪆㪇㪈㪉㪊",
            "㪋㪌㪍㪎㪏㪐㪑㪒㪓㪔㪕㪖㪗㪘㪙㪚㪛㪜㪝㪞㪟㪠㪡㪢㪣㪤㪥㪦㪧㪨㪩㪪㪫㪬㪭㪮㪯㪰㪱㪲㪳㪴㪵㪶㪷㪸㪹㪺㪻㪼㪽㪾㪿㫀㫁㫂㫃㫄㫅㫆㫇㫈㫉㫊",
            "㫋㫌㫍㫎㫏㫐㫑㫒㫓㫔㫕㫖㫗㫘㫙㫚㫛㫜㫝㫞㫟㫠㫡㫢㫣㫤㫥㫦㫧㫨㫩㫪㫫㫬㫭㫮㫯㫰㫱㫲㫳㫴㫵㫶㫷㫸㫹㫺㫻㫼㫽㫾㫿㮀㮁㮂㮃㮄㮅㮆㮇㮈㮉㮊",
            "㮋㮌㮍㮎㮏㮐㮑㮒㮓㮔㮕㮖㮗㮘㮙㮚㮛㮜㮝㮞㮟㮠㮡㮢㮣㮤㮥㮦㮧㮨㮩㮪㮫㮬㮭㮮㮯㮰㮱㮲㮳㮴㮵㮶㮷㮸㮹㮺㮻㮼㮽㮾㮿㯀㯁㯂㯃㯄㯅㯆㯇㯈㯉㯊",
            "㯋㯌㯍㯎㯏㯐㯑㯒㯓㯔㯕㯖㯗㯘㯙㯚㯛㯜㯝㯞㯟㯠㯡㯢㯣㯤㯥㯦㯧㯨㯩㯪㯫㯬㯭㯮㯯㯰㯱㯲㯳㯴㯵㯶㯷㯸㯹㯺㯻㯼㯽㯾㯿㲀㲁㲂㲃㲄㲅㲆㲇㲈㲉㲊",
            "㲋㲌㲍㲎㲏㲐㲑㲒㲓㲔㲕㲖㲗㲘㲙㲚㲛㲜㲝㲞㲟㲠㲡㲢㲣㲤㲥㲦㲧㲨㲩㲪㲫㲬㲭㲮㲯㲰㲱㲲㲳㲴㲵㲶㲷㲸㲹㲺㲻㲼㲽㲾㲿㳀㳁㳂㳃㳄㳅㳆㳇㳈㳉㳊",
            "㳋㳌㳍㳎㳏㳐㳑㳒㳓㳔㳕㳖㳗㳘㳙㳚㳛㳜㳝㳞㳟㳠㳡㳢㳣㳤㳥㳦㳧㳨㳩㳪㳫㳬㳭㳮㳯㳰㳱㳲㳳㳴㳵㳶㳷㳸㳹㳺㳻㳼㳽㳾㳿㶀㶁㶂㶃㶄㶅㶆㶇㶈㶉㶊",
            "㶋㶌㶍㶎㶏㶐㶑㶒㶓㶔㶕㶖㶗㶘㶙㶚㶛㶜㶝㶞㶟㶠㶡㶢㶣㶤㶥㶦㶧㶨㶩㶪㶫㶬㶭㶮㶯㶰㶱㶲㶳㶴㶵㶶㶷㶸㶹㶺㶻㶼㶽㶾㶿㷀㷁㷂㷃㷄㷅㷆㷇㷈㷉㷊",
            "㷋㷌㷍㷎㷏㷐㷑㷒㷓㷔㷕㷖㷗㷘㷙㷚㷛㷜㷝㷞㷟㷠㷡㷢㷣㷤㷥㷦㷧㷨㷩㷪㷫㷬㷭㷮㷯㷰㷱㷲㷳㷴㷵㷶㷷㷸㷹㷺㷻㷼㷽㷾㷿㺀㺁㺂㺃㺄㺅㺆㺇㺈㺉㺊",
            "㺋㺌㺍㺎㺏㺐㺑㺒㺓㺔㺕㺖㺗㺘㺙㺚㺛㺜㺝㺞㺟㺠㺡㺢㺣㺤㺥㺦㺧㺨㺩㺪㺫㺬㺭㺮㺯㺰㺱㺲㺳㺴㺵㺶㺷㺸㺹㺺㺻㺼㺽㺾㺿㻀㻁㻂㻃㻄㻅㻆㻇㻈㻉㻊",
            "㻋㻌㻍㻎㻏㻐㻑㻒㻓㻔㻕㻖㻗㻘㻙㻚㻛㻜㻝㻞㻟㻠㻡㻢㻣㻤㻥㻦㻧㻨㻩㻪㻫㻬㻭㻮㻯㻰㻱㻲㻳㻴㻵㻶㻷㻸㻹㻺㻻㻼㻽㻾㻿㾀㾁㾂㾃㾄㾅㾆㾇㾈㾉㾊",
            "㾋㾌㾍㾎㾏㾐㾑㾒㾓㾔㾕㾖㾗㾘㾙㾚㾛㾜㾝㾞㾟㾠㾡㾢㾣㾤㾥㾦㾧㾨㾩㾪㾫㾬㾭㾮㾯㾰㾱㾲㾳㾴㾵㾶㾷㾸㾹㾺㾻㾼㾽㾾㾿㿀㿁㿂㿃㿄㿅㿆㿇㿈㿉㿊",
            "㿋㿌㿍㿎㿏㿐㿑㿒㿓㿔㿕㿖㿗㿘㿙㿚㿛㿜㿝㿞㿟㿠㿡㿢㿣㿤㿥㿦㿧㿨㿩㿪㿫㿬㿭㿮㿯㿰㿱㿲㿳㿴㿵㿶㿷㿸㿹㿺㿻㿼㿽㿾㿿䂀䂁䂂䂃䂄䂅䂆䂇䂈䂉䂊",
            "䂋䂌䂍䂎䂏䂐䂑䂒䂓䂔䂕䂖䂗䂘䂙䂚䂛䂜䂝䂞䂟䂠䂡䂢䂣䂤䂥䂦䂧䂨䂩䂪䂫䂬䂭䂮䂯䂰䂱䂲䂳䂴䂵䂶䂷䂸䂹䂺䂻䂼䂽䂾䂿䃀䃁䃂䃃䃄䃅䃆䃇䃈䃉䃊",
            "䃋䃌䃍䃎䃏䃐䃑䃒䃓䃔䃕䃖䃗䃘䃙䃚䃛䃜䃝䃞䃟䃠䃡䃢䃣䃤䃥䃦䃧䃨䃩䃪䃫䃬䃭䃮䃯䃰䃱䃲䃳䃴䃵䃶䃷䃸䃹䃺䃻䃼䃽䃾䃿䆀䆁䆂䆃䆄䆅䆆䆇䆈䆉䆊",
            "䆋䆌䆍䆎䆏䆐䆑䆒䆓䆔䆕䆖䆗䆘䆙䆚䆛䆜䆝䆞䆟䆠䆡䆢䆣䆤䆥䆦䆧䆨䆩䆪䆫䆬䆭䆮䆯䆰䆱䆲䆳䆴䆵䆶䆷䆸䆹䆺䆻䆼䆽䆾䆿䇀䇁䇂䇃䇄䇅䇆䇇䇈䇉䇊",
            "䇋䇌䇍䇎䇏䇐䇑䇒䇓䇔䇕䇖䇗䇘䇙䇚䇛䇜䇝䇞䇟䇠䇡䇢䇣䇤䇥䇦䇧䇨䇩䇪䇫䇬䇭䇮䇯䇰䇱䇲䇳䇴䇵䇶䇷䇸䇹䇺䇻䇼䇽䇾䇿䊀䊁䊂䊃䊄䊅䊆䊇䊈䊉䊊",
            "䊋䊌䊍䊎䊏䊐䊑䊒䊓䊔䊕䊖䊗䊘䊙䊚䊛䊜䊝䊞䊟䊠䊡䊢䊣䊤䊥䊦䊧䊨䊩䊪䊫䊬䊭䊮䊯䊰䊱䊲䊳䊴䊵䊶䊷䊸䊹䊺䊻䊼䊽䊾䊿䋀䋁䋂䋃䋄䋅䋆䋇䋈䋉䋊",
            "䋋䋌䋍䋎䋏䋐䋑䋒䋓䋔䋕䋖䋗䋘䋙䋚䋛䋜䋝䋞䋟䋠䋡䋢䋣䋤䋥䋦䋧䋨䋩䋪䋫䋬䋭䋮䋯䋰䋱䋲䋳䋴䋵䋶䋷䋸䋹䋺䋻䋼䋽䋾䋿䎀䎁䎂䎃䎄䎅䎆䎇䎈䎉䎊",
            "䎋䎌䎍䎎䎏䎐䎑䎒䎓䎔䎕䎖䎗䎘䎙䎚䎛䎜䎝䎞䎟䎠䎡䎢䎣䎤䎥䎦䎧䎨䎩䎪䎫䎬䎭䎮䎯䎰䎱䎲䎳䎴䎵䎶䎷䎸䎹䎺䎻䎼䎽䎾䎿䏀䏁䏂䏃䏄䏅䏆䏇䏈䏉䏊",
            "䏋䏌䏍䏎䏏䏐䏑䏒䏓䏔䏕䏖䏗䏘䏙䏚䏛䏜䏝䏞䏟䏠䏡䏢䏣䏤䏥䏦䏧䏨䏩䏪䏫䏬䏭䏮䏯䏰䏱䏲䏳䏴䏵䏶䏷䏸䏹䏺䏻䏼䏽䏾䏿䒀䒁䒂䒃䒄䒅䒆䒇䒈䒉䒊",
            "䒋䒌䒍䒎䒏䒐䒑䒒䒓䒔䒕䒖䒗䒘䒙䒚䒛䒜䒝䒞䒟䒠䒡䒢䒣䒤䒥䒦䒧䒨䒩䒪䒫䒬䒭䒮䒯䒰䒱䒲䒳䒴䒵䒶䒷䒸䒹䒺䒻䒼䒽䒾䒿䓀䓁䓂䓃䓄䓅䓆䓇䓈䓉䓊",
            "䓋䓌䓍䓎䓏䓐䓑䓒䓓䓔䓕䓖䓗䓘䓙䓚䓛䓜䓝䓞䓟䓠䓡䓢䓣䓤䓥䓦䓧䓨䓩䓪䓫䓬䓭䓮䓯䓰䓱䓲䓳䓴䓵䓶䓷䓸䓹䓺䓻䓼䓽䓾䓿䖀䖁䖂䖃䖄䖅䖆䖇䖈䖉䖊",
            "䖋䖌䖍䖎䖏䖐䖑䖒䖓䖔䖕䖖䖗䖘䖙䖚䖛䖜䖝䖞䖟䖠䖡䖢䖣䖤䖥䖦䖧䖨䖩䖪䖫䖬䖭䖮䖯䖰䖱䖲䖳䖴䖵䖶䖷䖸䖹䖺䖻䖼䖽䖾䖿䗀䗁䗂䗃䗄䗅䗆䗇䗈䗉䗊",
            "䗋䗌䗍䗎䗏䗐䗑䗒䗓䗔䗕䗖䗗䗘䗙䗚䗛䗜䗝䗞䗟䗠䗡䗢䗣䗤䗥䗦䗧䗨䗩䗪䗫䗬䗭䗮䗯䗰䗱䗲䗳䗴䗵䗶䗷䗸䗹䗺䗻䗼䗽䗾䗿䚀䚁䚂䚃䚄䚅䚆䚇䚈䚉䚊",
            "䚋䚌䚍䚎䚏䚐䚑䚒䚓䚔䚕䚖䚗䚘䚙䚚䚛䚜䚝䚞䚟䚠䚡䚢䚣䚤䚥䚦䚧䚨䚩䚪䚫䚬䚭䚮䚯䚰䚱䚲䚳䚴䚵䚶䚷䚸䚹䚺䚻䚼䚽䚾䚿䛀䛁䛂䛃䛄䛅䛆䛇䛈䛉䛊",
            "䛋䛌䛍䛎䛏䛐䛑䛒䛓䛔䛕䛖䛗䛘䛙䛚䛛䛜䛝䛞䛟䛠䛡䛢䛣䛤䛥䛦䛧䛨䛩䛪䛫䛬䛭䛮䛯䛰䛱䛲䛳䛴䛵䛶䛷䛸䛹䛺䛻䛼䛽䛾䛿䞀䞁䞂䞃䞄䞅䞆䞇䞈䞉䞊",
            "䞋䞌䞍䞎䞏䞐䞑䞒䞓䞔䞕䞖䞗䞘䞙䞚䞛䞜䞝䞞䞟䞠䞡䞢䞣䞤䞥䞦䞧䞨䞩䞪䞫䞬䞭䞮䞯䞰䞱䞲䞳䞴䞵䞶䞷䞸䞹䞺䞻䞼䞽䞾䞿䟀䟁䟂䟃䟄䟅䟆䟇䟈䟉䟊",
            "䟋䟌䟍䟎䟏䟐䟑䟒䟓䟔䟕䟖䟗䟘䟙䟚䟛䟜䟝䟞䟟䟠䟡䟢䟣䟤䟥䟦䟧䟨䟩䟪䟫䟬䟭䟮䟯䟰䟱䟲䟳䟴䟵䟶䟷䟸䟹䟺䟻䟼䟽䟾䟿䢀䢁䢂䢃䢄䢅䢆䢇䢈䢉䢊",
            "䢋䢌䢍䢎䢏䢐䢑䢒䢓䢔䢕䢖䢗䢘䢙䢚䢛䢜䢝䢞䢟䢠䢡䢢䢣䢤䢥䢦䢧䢨䢩䢪䢫䢬䢭䢮䢯䢰䢱䢲䢳䢴䢵䢶䢷䢸䢹䢺䢻䢼䢽䢾䢿䣀䣁䣂䣃䣄䣅䣆䣇䣈䣉䣊",
            "䣋䣌䣍䣎䣏䣐䣑䣒䣓䣔䣕䣖䣗䣘䣙䣚䣛䣜䣝䣞䣟䣠䣡䣢䣣䣤䣥䣦䣧䣨䣩䣪䣫䣬䣭䣮䣯䣰䣱䣲䣳䣴䣵䣶䣷䣸䣹䣺䣻䣼䣽䣾䣿䦀䦁䦂䦃䦄䦅䦆䦇䦈䦉䦊",
            "䦋䦌䦍䦎䦏䦐䦑䦒䦓䦔䦕䦖䦗䦘䦙䦚䦛䦜䦝䦞䦟䦠䦡䦢䦣䦤䦥䦦䦧䦨䦩䦪䦫䦬䦭䦮䦯䦰䦱䦲䦳䦴䦵䦶䦷䦸䦹䦺䦻䦼䦽䦾䦿䧀䧁䧂䧃䧄䧅䧆䧇䧈䧉䧊",
            "䧋䧌䧍䧎䧏䧐䧑䧒䧓䧔䧕䧖䧗䧘䧙䧚䧛䧜䧝䧞䧟䧠䧡䧢䧣䧤䧥䧦䧧䧨䧩䧪䧫䧬䧭䧮䧯䧰䧱䧲䧳䧴䧵䧶䧷䧸䧹䧺䧻䧼䧽䧾䧿䪀䪁䪂䪃䪄䪅䪆䪇䪈䪉䪊",
            "䪋䪌䪍䪎䪏䪐䪑䪒䪓䪔䪕䪖䪗䪘䪙䪚䪛䪜䪝䪞䪟䪠䪡䪢䪣䪤䪥䪦䪧䪨䪩䪪䪫䪬䪭䪮䪯䪰䪱䪲䪳䪴䪵䪶䪷䪸䪹䪺䪻䪼䪽䪾䪿䫀䫁䫂䫃䫄䫅䫆䫇䫈䫉䫊",
            "䫋䫌䫍䫎䫏䫐䫑䫒䫓䫔䫕䫖䫗䫘䫙䫚䫛䫜䫝䫞䫟䫠䫡䫢䫣䫤䫥䫦䫧䫨䫩䫪䫫䫬䫭䫮䫯䫰䫱䫲䫳䫴䫵䫶䫷䫸䫹䫺䫻䫼䫽䫾䫿䮀䮁䮂䮃䮄䮅䮆䮇䮈䮉䮊",
            "䮋䮌䮍䮎䮏䮐䮑䮒䮓䮔䮕䮖䮗䮘䮙䮚䮛䮜䮝䮞䮟䮠䮡䮢䮣䮤䮥䮦䮧䮨䮩䮪䮫䮬䮭䮮䮯䮰䮱䮲䮳䮴䮵䮶䮷䮸䮹䮺䮻䮼䮽䮾䮿䯀䯁䯂䯃䯄䯅䯆䯇䯈䯉䯊",
            "䯋䯌䯍䯎䯏䯐䯑䯒䯓䯔䯕䯖䯗䯘䯙䯚䯛䯜䯝䯞䯟䯠䯡䯢䯣䯤䯥䯦䯧䯨䯩䯪䯫䯬䯭䯮䯯䯰䯱䯲䯳䯴䯵䯶䯷䯸䯹䯺䯻䯼䯽䯾䯿䲀䲁䲂䲃䲄䲅䲆䲇䲈䲉䲊",
            "䲋䲌䲍䲎䲏䲐䲑䲒䲓䲔䲕䲖䲗䲘䲙䲚䲛䲜䲝䲞䲟䲠䲡䲢䲣䲤䲥䲦䲧䲨䲩䲪䲫䲬䲭䲮䲯䲰䲱䲲䲳䲴䲵䲶䲷䲸䲹䲺䲻䲼䲽䲾䲿䳀䳁䳂䳃䳄䳅䳆䳇䳈䳉䳊",
            "䳋䳌䳍䳎䳏䳐䳑䳒䳓䳔䳕䳖䳗䳘䳙䳚䳛䳜䳝䳞䳟䳠䳡䳢䳣䳤䳥䳦䳧䳨䳩䳪䳫䳬䳭䳮䳯䳰䳱䳲䳳䳴䳵䳶䳷䳸䳹䳺䳻䳼䳽䳾䳿䶀䶁䶂䶃䶄䶅䶆䶇䶈䶉䶊",
            "䶋䶌䶍䶎䶏䶐䶑䶒䶓䶔䶕䶖䶗䶘䶙䶚䶛䶜䶝䶞䶟䶠䶡䶢䶣䶤䶥䶦䶧䶨䶩䶪䶫䶬䶭䶮䶯䶰䶱䶲䶳䶴䶵䶶䶷䶸䶹䶺䶻䶼䶽䶾䶿亀亁亂亃亄亅了亇予争亊",
            "事二亍于亏亐云互亓五井亖亗亘亙亚些亜亝亞亟亠亡亢亣交亥亦产亨亩亪享京亭亮亯亰亱亲亳亴亵亶亷亸亹人亻亼亽亾亿什仁仂仃仄仅仆仇仈仉今",
            "介仌仍从仏仐仑仒仓仔仕他仗付仙仚仛仜仝仞仟仠仡仢代令以仦仧仨仩仪仫们仭仮仯仰仱仲仳仴仵件价仸仹仺任仼份仾仿侀侁侂侃侄侅來侇侈侉侊",
            "例侌侍侎侏侐侑侒侓侔侕侖侗侘侙侚供侜依侞侟侠価侢侣侤侥侦侧侨侩侪侫侬侭侮侯侰侱侲侳侴侵侶侷侸侹侺侻侼侽侾便俀俁係促俄俅俆俇俈俉俊",
            "俋俌俍俎俏俐俑俒俓俔俕俖俗俘俙俚俛俜保俞俟俠信俢俣俤俥俦俧俨俩俪俫俬俭修俯俰俱俲俳俴俵俶俷俸俹俺俻俼俽俾俿傀傁傂傃傄傅傆傇傈傉傊",
            "傋傌傍傎傏傐傑傒傓傔傕傖傗傘備傚傛傜傝傞傟傠傡傢傣傤傥傦傧储傩傪傫催傭傮傯傰傱傲傳傴債傶傷傸傹傺傻傼傽傾傿僀僁僂僃僄僅僆僇僈僉僊",
            "僋僌働僎像僐僑僒僓僔僕僖僗僘僙僚僛僜僝僞僟僠僡僢僣僤僥僦僧僨僩僪僫僬僭僮僯僰僱僲僳僴僵僶僷僸價僺僻僼僽僾僿冀冁冂冃冄内円冇冈冉冊",
            "冋册再冎冏冐冑冒冓冔冕冖冗冘写冚军农冝冞冟冠冡冢冣冤冥冦冧冨冩冪冫冬冭冮冯冰冱冲决冴况冶冷冸冹冺冻冼冽冾冿净凁凂凃凄凅准凇凈凉凊",
            "凋凌凍凎减凐凑凒凓凔凕凖凗凘凙凚凛凜凝凞凟几凡凢凣凤凥処凧凨凩凪凫凬凭凮凯凰凱凲凳凴凵凶凷凸凹出击凼函凾凿劀劁劂劃劄劅劆劇劈劉劊",
            "劋劌劍劎劏劐劑劒劓劔劕劖劗劘劙劚力劜劝办功加务劢劣劤劥劦劧动助努劫劬劭劮劯劰励劲劳労劵劶劷劸効劺劻劼劽劾势勀勁勂勃勄勅勆勇勈勉勊",
            "勋勌勍勎勏勐勑勒勓勔動勖勗勘務勚勛勜勝勞募勠勡勢勣勤勥勦勧勨勩勪勫勬勭勮勯勰勱勲勳勴勵勶勷勸勹勺勻勼勽勾勿厀厁厂厃厄厅历厇厈厉厊",
            "压厌厍厎厏厐厑厒厓厔厕厖厗厘厙厚厛厜厝厞原厠厡厢厣厤厥厦厧厨厩厪厫厬厭厮厯厰厱厲厳厴厵厶厷厸厹厺去厼厽厾县叀叁参參叄叅叆叇又叉及",
            "友双反収叏叐发叒叓叔叕取受变叙叚叛叜叝叞叟叠叡叢口古句另叧叨叩只叫召叭叮可台叱史右叴叵叶号司叹叺叻叼叽叾叿咀咁咂咃咄咅咆咇咈咉咊",
            "咋和咍咎咏咐咑咒咓咔咕咖咗咘咙咚咛咜咝咞咟咠咡咢咣咤咥咦咧咨咩咪咫咬咭咮咯咰咱咲咳咴咵咶咷咸咹咺咻咼咽咾咿哀品哂哃哄哅哆哇哈哉哊",
            "哋哌响哎哏哐哑哒哓哔哕哖哗哘哙哚哛哜哝哞哟哠員哢哣哤哥哦哧哨哩哪哫哬哭哮哯哰哱哲哳哴哵哶哷哸哹哺哻哼哽哾哿喀喁喂喃善喅喆喇喈喉喊",
            "喋喌喍喎喏喐喑喒喓喔喕喖喗喘喙喚喛喜喝喞喟喠喡喢喣喤喥喦喧喨喩喪喫喬喭單喯喰喱喲喳喴喵営喷喸喹喺喻喼喽喾喿嗀嗁嗂嗃嗄嗅嗆嗇嗈嗉嗊",
            "嗋嗌嗍嗎嗏嗐嗑嗒嗓嗔嗕嗖嗗嗘嗙嗚嗛嗜嗝嗞嗟嗠嗡嗢嗣嗤嗥嗦嗧嗨嗩嗪嗫嗬嗭嗮嗯嗰嗱嗲嗳嗴嗵嗶嗷嗸嗹嗺嗻嗼嗽嗾嗿嚀嚁嚂嚃嚄嚅嚆嚇嚈嚉嚊",
            "嚋嚌嚍嚎嚏嚐嚑嚒嚓嚔嚕嚖嚗嚘嚙嚚嚛嚜嚝嚞嚟嚠嚡嚢嚣嚤嚥嚦嚧嚨嚩嚪嚫嚬嚭嚮嚯嚰嚱嚲嚳嚴嚵嚶嚷嚸嚹嚺嚻嚼嚽嚾嚿囀囁囂囃囄囅囆囇囈囉囊",
            "囋囌囍囎囏囐囑囒囓囔囕囖囗囘囙囚四囜囝回囟因囡团団囤囥囦囧囨囩囪囫囬园囮囯困囱囲図围囵囶囷囸囹固囻囼国图囿垀垁垂垃垄垅垆垇垈垉垊",
            "型垌垍垎垏垐垑垒垓垔垕垖垗垘垙垚垛垜垝垞垟垠垡垢垣垤垥垦垧垨垩垪垫垬垭垮垯垰垱垲垳垴垵垶垷垸垹垺垻垼垽垾垿埀埁埂埃埄埅埆埇埈埉埊",
            "埋埌埍城埏埐埑埒埓埔埕埖埗埘埙埚埛埜埝埞域埠埡埢埣埤埥埦埧埨埩埪埫埬埭埮埯埰埱埲埳埴埵埶執埸培基埻埼埽埾埿墀墁墂境墄墅墆墇墈墉墊",
            "墋墌墍墎墏墐墑墒墓墔墕墖増墘墙墚墛墜墝增墟墠墡墢墣墤墥墦墧墨墩墪墫墬墭墮墯墰墱墲墳墴墵墶墷墸墹墺墻墼墽墾墿壀壁壂壃壄壅壆壇壈壉壊",
            "壋壌壍壎壏壐壑壒壓壔壕壖壗壘壙壚壛壜壝壞壟壠壡壢壣壤壥壦壧壨壩壪士壬壭壮壯声壱売壳壴壵壶壷壸壹壺壻壼壽壾壿妀妁如妃妄妅妆妇妈妉妊",
            "妋妌妍妎妏妐妑妒妓妔妕妖妗妘妙妚妛妜妝妞妟妠妡妢妣妤妥妦妧妨妩妪妫妬妭妮妯妰妱妲妳妴妵妶妷妸妹妺妻妼妽妾妿姀姁姂姃姄姅姆姇姈姉姊",
            "始姌姍姎姏姐姑姒姓委姕姖姗姘姙姚姛姜姝姞姟姠姡姢姣姤姥姦姧姨姩姪姫姬姭姮姯姰姱姲姳姴姵姶姷姸姹姺姻姼姽姾姿媀媁媂媃媄媅媆媇媈媉媊",
            "媋媌媍媎媏媐媑媒媓媔媕媖媗媘媙媚媛媜媝媞媟媠媡媢媣媤媥媦媧媨媩媪媫媬媭媮媯媰媱媲媳媴媵媶媷媸媹媺媻媼媽媾媿嫀嫁嫂嫃嫄嫅嫆嫇嫈嫉嫊",
            "嫋嫌嫍嫎嫏嫐嫑嫒嫓嫔嫕嫖嫗嫘嫙嫚嫛嫜嫝嫞嫟嫠嫡嫢嫣嫤嫥嫦嫧嫨嫩嫪嫫嫬嫭嫮嫯嫰嫱嫲嫳嫴嫵嫶嫷嫸嫹嫺嫻嫼嫽嫾嫿宀宁宂它宄宅宆宇守安宊",
            "宋完宍宎宏宐宑宒宓宔宕宖宗官宙定宛宜宝实実宠审客宣室宥宦宧宨宩宪宫宬宭宮宯宰宱宲害宴宵家宷宸容宺宻宼宽宾宿寀寁寂寃寄寅密寇寈寉寊",
            "寋富寍寎寏寐寑寒寓寔寕寖寗寘寙寚寛寜寝寞察寠寡寢寣寤寥實寧寨審寪寫寬寭寮寯寰寱寲寳寴寵寶寷寸对寺寻导寽対寿岀岁岂岃岄岅岆岇岈岉岊",
            "岋岌岍岎岏岐岑岒岓岔岕岖岗岘岙岚岛岜岝岞岟岠岡岢岣岤岥岦岧岨岩岪岫岬岭岮岯岰岱岲岳岴岵岶岷岸岹岺岻岼岽岾岿峀峁峂峃峄峅峆峇峈峉峊",
            "峋峌峍峎峏峐峑峒峓峔峕峖峗峘峙峚峛峜峝峞峟峠峡峢峣峤峥峦峧峨峩峪峫峬峭峮峯峰峱峲峳峴峵島峷峸峹峺峻峼峽峾峿嶀嶁嶂嶃嶄嶅嶆嶇嶈嶉嶊",
            "嶋嶌嶍嶎嶏嶐嶑嶒嶓嶔嶕嶖嶗嶘嶙嶚嶛嶜嶝嶞嶟嶠嶡嶢嶣嶤嶥嶦嶧嶨嶩嶪嶫嶬嶭嶮嶯嶰嶱嶲嶳嶴嶵嶶嶷嶸嶹嶺嶻嶼嶽嶾嶿巀巁巂巃巄巅巆巇巈巉巊",
            "巋巌巍巎巏巐巑巒巓巔巕巖巗巘巙巚巛巜川州巟巠巡巢巣巤工左巧巨巩巪巫巬巭差巯巰己已巳巴巵巶巷巸巹巺巻巼巽巾巿庀庁庂広庄庅庆庇庈庉床",
            "庋庌庍庎序庐庑庒库应底庖店庘庙庚庛府庝庞废庠庡庢庣庤庥度座庨庩庪庫庬庭庮庯庰庱庲庳庴庵庶康庸庹庺庻庼庽庾庿廀廁廂廃廄廅廆廇廈廉廊",
            "廋廌廍廎廏廐廑廒廓廔廕廖廗廘廙廚廛廜廝廞廟廠廡廢廣廤廥廦廧廨廩廪廫廬廭廮廯廰廱廲廳廴廵延廷廸廹建廻廼廽廾廿往征徂徃径待徆徇很徉徊",
            "律後徍徎徏徐徑徒従徔徕徖得徘徙徚徛徜徝從徟徠御徢徣徤徥徦徧徨復循徫徬徭微徯徰徱徲徳徴徵徶德徸徹徺徻徼徽徾徿忀忁忂心忄必忆忇忈忉忊",
            "忋忌忍忎忏忐忑忒忓忔忕忖志忘忙忚忛応忝忞忟忠忡忢忣忤忥忦忧忨忩忪快忬忭忮忯忰忱忲忳忴念忶忷忸忹忺忻忼忽忾忿悀悁悂悃悄悅悆悇悈悉悊",
            "悋悌悍悎悏悐悑悒悓悔悕悖悗悘悙悚悛悜悝悞悟悠悡悢患悤悥悦悧您悩悪悫悬悭悮悯悰悱悲悳悴悵悶悷悸悹悺悻悼悽悾悿惀惁惂惃惄情惆惇惈惉惊",
            "惋惌惍惎惏惐惑惒惓惔惕惖惗惘惙惚惛惜惝惞惟惠惡惢惣惤惥惦惧惨惩惪惫惬惭惮惯惰惱惲想惴惵惶惷惸惹惺惻惼惽惾惿憀憁憂憃憄憅憆憇憈憉憊",
            "憋憌憍憎憏憐憑憒憓憔憕憖憗憘憙憚憛憜憝憞憟憠憡憢憣憤憥憦憧憨憩憪憫憬憭憮憯憰憱憲憳憴憵憶憷憸憹憺憻憼憽憾憿懀懁懂懃懄懅懆懇懈應懊",
            "懋懌懍懎懏懐懑懒懓懔懕懖懗懘懙懚懛懜懝懞懟懠懡懢懣懤懥懦懧懨懩懪懫懬懭懮懯懰懱懲懳懴懵懶懷懸懹懺懻懼懽懾懿技抁抂抃抄抅抆抇抈抉把",
            "抋抌抍抎抏抐抑抒抓抔投抖抗折抙抚抛抜抝択抟抠抡抢抣护报抦抧抨抩抪披抬抭抮抯抰抱抲抳抴抵抶抷抸抹抺抻押抽抾抿拀拁拂拃拄担拆拇拈拉拊",
            "拋拌拍拎拏拐拑拒拓拔拕拖拗拘拙拚招拜拝拞拟拠拡拢拣拤拥拦拧拨择拪拫括拭拮拯拰拱拲拳拴拵拶拷拸拹拺拻拼拽拾拿掀掁掂掃掄掅掆掇授掉掊",
            "掋掌掍掎掏掐掑排掓掔掕掖掗掘掙掚掛掜掝掞掟掠採探掣掤接掦控推掩措掫掬掭掮掯掰掱掲掳掴掵掶掷掸掹掺掻掼掽掾掿揀揁揂揃揄揅揆揇揈揉揊",
            "揋揌揍揎描提揑插揓揔揕揖揗揘揙揚換揜揝揞揟揠握揢揣揤揥揦揧揨揩揪揫揬揭揮揯揰揱揲揳援揵揶揷揸揹揺揻揼揽揾揿撀撁撂撃撄撅撆撇撈撉撊",
            "撋撌撍撎撏撐撑撒撓撔撕撖撗撘撙撚撛撜撝撞撟撠撡撢撣撤撥撦撧撨撩撪撫撬播撮撯撰撱撲撳撴撵撶撷撸撹撺撻撼撽撾撿擀擁擂擃擄擅擆擇擈擉擊",
            "擋擌操擎擏擐擑擒擓擔擕擖擗擘擙據擛擜擝擞擟擠擡擢擣擤擥擦擧擨擩擪擫擬擭擮擯擰擱擲擳擴擵擶擷擸擹擺擻擼擽擾擿斀斁斂斃斄斅斆文斈斉斊",
            "斋斌斍斎斏斐斑斒斓斔斕斖斗斘料斚斛斜斝斞斟斠斡斢斣斤斥斦斧斨斩斪斫斬断斮斯新斱斲斳斴斵斶斷斸方斺斻於施斾斿旀旁旂旃旄旅旆旇旈旉旊",
            "旋旌旍旎族旐旑旒旓旔旕旖旗旘旙旚旛旜旝旞旟无旡既旣旤日旦旧旨早旪旫旬旭旮旯旰旱旲旳旴旵时旷旸旹旺旻旼旽旾旿暀暁暂暃暄暅暆暇暈暉暊",
            "暋暌暍暎暏暐暑暒暓暔暕暖暗暘暙暚暛暜暝暞暟暠暡暢暣暤暥暦暧暨暩暪暫暬暭暮暯暰暱暲暳暴暵暶暷暸暹暺暻暼暽暾暿曀曁曂曃曄曅曆曇曈曉曊",
            "曋曌曍曎曏曐曑曒曓曔曕曖曗曘曙曚曛曜曝曞曟曠曡曢曣曤曥曦曧曨曩曪曫曬曭曮曯曰曱曲曳更曵曶曷書曹曺曻曼曽曾替枀极枂枃构枅枆枇枈枉枊",
            "枋枌枍枎枏析枑枒枓枔枕枖林枘枙枚枛果枝枞枟枠枡枢枣枤枥枦枧枨枩枪枫枬枭枮枯枰枱枲枳枴枵架枷枸枹枺枻枼枽枾枿柀柁柂柃柄柅柆柇柈柉柊",
            "柋柌柍柎柏某柑柒染柔柕柖柗柘柙柚柛柜柝柞柟柠柡柢柣柤查柦柧柨柩柪柫柬柭柮柯柰柱柲柳柴柵柶柷柸柹柺査柼柽柾柿梀梁梂梃梄梅梆梇梈梉梊",
            "梋梌梍梎梏梐梑梒梓梔梕梖梗梘梙梚梛梜條梞梟梠梡梢梣梤梥梦梧梨梩梪梫梬梭梮梯械梱梲梳梴梵梶梷梸梹梺梻梼梽梾梿检棁棂棃棄棅棆棇棈棉棊",
            "棋棌棍棎棏棐棑棒棓棔棕棖棗棘棙棚棛棜棝棞棟棠棡棢棣棤棥棦棧棨棩棪棫棬棭森棯棰棱棲棳棴棵棶棷棸棹棺棻棼棽棾棿榀榁概榃榄榅榆榇榈榉榊",
            "榋榌榍榎榏榐榑榒榓榔榕榖榗榘榙榚榛榜榝榞榟榠榡榢榣榤榥榦榧榨榩榪榫榬榭榮榯榰榱榲榳榴榵榶榷榸榹榺榻榼榽榾榿槀槁槂槃槄槅槆槇槈槉槊",
            "構槌槍槎槏槐槑槒槓槔槕槖槗様槙槚槛槜槝槞槟槠槡槢槣槤槥槦槧槨槩槪槫槬槭槮槯槰槱槲槳槴槵槶槷槸槹槺槻槼槽槾槿檀檁檂檃檄檅檆檇檈檉檊",
            "檋檌檍檎檏檐檑檒檓檔檕檖檗檘檙檚檛檜檝檞檟檠檡檢檣檤檥檦檧檨檩檪檫檬檭檮檯檰檱檲檳檴檵檶檷檸檹檺檻檼檽檾檿櫀櫁櫂櫃櫄櫅櫆櫇櫈櫉櫊",
            "櫋櫌櫍櫎櫏櫐櫑櫒櫓櫔櫕櫖櫗櫘櫙櫚櫛櫜櫝櫞櫟櫠櫡櫢櫣櫤櫥櫦櫧櫨櫩櫪櫫櫬櫭櫮櫯櫰櫱櫲櫳櫴櫵櫶櫷櫸櫹櫺櫻櫼櫽櫾櫿殀殁殂殃殄殅殆殇殈殉殊",
            "残殌殍殎殏殐殑殒殓殔殕殖殗殘殙殚殛殜殝殞殟殠殡殢殣殤殥殦殧殨殩殪殫殬殭殮殯殰殱殲殳殴段殶殷殸殹殺殻殼殽殾殿毀毁毂毃毄毅毆毇毈毉毊",
            "毋毌母毎每毐毑毒毓比毕毖毗毘毙毚毛毜毝毞毟毠毡毢毣毤毥毦毧毨毩毪毫毬毭毮毯毰毱毲毳毴毵毶毷毸毹毺毻毼毽毾毿沀沁沂沃沄沅沆沇沈沉沊",
            "沋沌沍沎沏沐沑沒沓沔沕沖沗沘沙沚沛沜沝沞沟沠没沢沣沤沥沦沧沨沩沪沫沬沭沮沯沰沱沲河沴沵沶沷沸油沺治沼沽沾沿泀況泂泃泄泅泆泇泈泉泊",
            "泋泌泍泎泏泐泑泒泓泔法泖泗泘泙泚泛泜泝泞泟泠泡波泣泤泥泦泧注泩泪泫泬泭泮泯泰泱泲泳泴泵泶泷泸泹泺泻泼泽泾泿涀涁涂涃涄涅涆涇消涉涊",
            "涋涌涍涎涏涐涑涒涓涔涕涖涗涘涙涚涛涜涝涞涟涠涡涢涣涤涥润涧涨涩涪涫涬涭涮涯涰涱液涳涴涵涶涷涸涹涺涻涼涽涾涿淀淁淂淃淄淅淆淇淈淉淊",
            "淋淌淍淎淏淐淑淒淓淔淕淖淗淘淙淚淛淜淝淞淟淠淡淢淣淤淥淦淧淨淩淪淫淬淭淮淯淰深淲淳淴淵淶混淸淹淺添淼淽淾淿満溁溂溃溄溅溆溇溈溉溊",
            "溋溌溍溎溏源溑溒溓溔溕準溗溘溙溚溛溜溝溞溟溠溡溢溣溤溥溦溧溨溩溪溫溬溭溮溯溰溱溲溳溴溵溶溷溸溹溺溻溼溽溾溿滀滁滂滃滄滅滆滇滈滉滊",
            "滋滌滍滎滏滐滑滒滓滔滕滖滗滘滙滚滛滜滝滞滟滠满滢滣滤滥滦滧滨滩滪滫滬滭滮滯滰滱滲滳滴滵滶滷滸滹滺滻滼滽滾滿澀澁澂澃澄澅澆澇澈澉澊",
            "澋澌澍澎澏澐澑澒澓澔澕澖澗澘澙澚澛澜澝澞澟澠澡澢澣澤澥澦澧澨澩澪澫澬澭澮澯澰澱澲澳澴澵澶澷澸澹澺澻澼澽澾澿激濁濂濃濄濅濆濇濈濉濊",
            "濋濌濍濎濏濐濑濒濓濔濕濖濗濘濙濚濛濜濝濞濟濠濡濢濣濤濥濦濧濨濩濪濫濬濭濮濯濰濱濲濳濴濵濶濷濸濹濺濻濼濽濾濿炀炁炂炃炄炅炆炇炈炉炊",
            "炋炌炍炎炏炐炑炒炓炔炕炖炗炘炙炚炛炜炝炞炟炠炡炢炣炤炥炦炧炨炩炪炫炬炭炮炯炰炱炲炳炴炵炶炷炸点為炻炼炽炾炿烀烁烂烃烄烅烆烇烈烉烊",
            "烋烌烍烎烏烐烑烒烓烔烕烖烗烘烙烚烛烜烝烞烟烠烡烢烣烤烥烦烧烨烩烪烫烬热烮烯烰烱烲烳烴烵烶烷烸烹烺烻烼烽烾烿熀熁熂熃熄熅熆熇熈熉熊",
            "熋熌熍熎熏熐熑熒熓熔熕熖熗熘熙熚熛熜熝熞熟熠熡熢熣熤熥熦熧熨熩熪熫熬熭熮熯熰熱熲熳熴熵熶熷熸熹熺熻熼熽熾熿燀燁燂燃燄燅燆燇燈燉燊",
            "燋燌燍燎燏燐燑燒燓燔燕燖燗燘燙燚燛燜燝燞營燠燡燢燣燤燥燦燧燨燩燪燫燬燭燮燯燰燱燲燳燴燵燶燷燸燹燺燻燼燽燾燿犀犁犂犃犄犅犆犇犈犉犊",
            "犋犌犍犎犏犐犑犒犓犔犕犖犗犘犙犚犛犜犝犞犟犠犡犢犣犤犥犦犧犨犩犪犫犬犭犮犯犰犱犲犳犴犵状犷犸犹犺犻犼犽犾犿狀狁狂狃狄狅狆狇狈狉狊",
            "狋狌狍狎狏狐狑狒狓狔狕狖狗狘狙狚狛狜狝狞狟狠狡狢狣狤狥狦狧狨狩狪狫独狭狮狯狰狱狲狳狴狵狶狷狸狹狺狻狼狽狾狿玀玁玂玃玄玅玆率玈玉玊",
            "王玌玍玎玏玐玑玒玓玔玕玖玗玘玙玚玛玜玝玞玟玠玡玢玣玤玥玦玧玨玩玪玫玬玭玮环现玱玲玳玴玵玶玷玸玹玺玻玼玽玾玿珀珁珂珃珄珅珆珇珈珉珊",
            "珋珌珍珎珏珐珑珒珓珔珕珖珗珘珙珚珛珜珝珞珟珠珡珢珣珤珥珦珧珨珩珪珫珬班珮珯珰珱珲珳珴珵珶珷珸珹珺珻珼珽現珿璀璁璂璃璄璅璆璇璈璉璊",
            "璋璌璍璎璏璐璑璒璓璔璕璖璗璘璙璚璛璜璝璞璟璠璡璢璣璤璥璦璧璨璩璪璫璬璭璮璯環璱璲璳璴璵璶璷璸璹璺璻璼璽璾璿瓀瓁瓂瓃瓄瓅瓆瓇瓈瓉瓊",
            "瓋瓌瓍瓎瓏瓐瓑瓒瓓瓔瓕瓖瓗瓘瓙瓚瓛瓜瓝瓞瓟瓠瓡瓢瓣瓤瓥瓦瓧瓨瓩瓪瓫瓬瓭瓮瓯瓰瓱瓲瓳瓴瓵瓶瓷瓸瓹瓺瓻瓼瓽瓾瓿疀疁疂疃疄疅疆疇疈疉疊",
            "疋疌疍疎疏疐疑疒疓疔疕疖疗疘疙疚疛疜疝疞疟疠疡疢疣疤疥疦疧疨疩疪疫疬疭疮疯疰疱疲疳疴疵疶疷疸疹疺疻疼疽疾疿痀痁痂痃痄病痆症痈痉痊",
            "痋痌痍痎痏痐痑痒痓痔痕痖痗痘痙痚痛痜痝痞痟痠痡痢痣痤痥痦痧痨痩痪痫痬痭痮痯痰痱痲痳痴痵痶痷痸痹痺痻痼痽痾痿皀皁皂皃的皅皆皇皈皉皊",
            "皋皌皍皎皏皐皑皒皓皔皕皖皗皘皙皚皛皜皝皞皟皠皡皢皣皤皥皦皧皨皩皪皫皬皭皮皯皰皱皲皳皴皵皶皷皸皹皺皻皼皽皾皿盀盁盂盃盄盅盆盇盈盉益",
            "盋盌盍盎盏盐监盒盓盔盕盖盗盘盙盚盛盜盝盞盟盠盡盢監盤盥盦盧盨盩盪盫盬盭目盯盰盱盲盳直盵盶盷相盹盺盻盼盽盾盿瞀瞁瞂瞃瞄瞅瞆瞇瞈瞉瞊",
            "瞋瞌瞍瞎瞏瞐瞑瞒瞓瞔瞕瞖瞗瞘瞙瞚瞛瞜瞝瞞瞟瞠瞡瞢瞣瞤瞥瞦瞧瞨瞩瞪瞫瞬瞭瞮瞯瞰瞱瞲瞳瞴瞵瞶瞷瞸瞹瞺瞻瞼瞽瞾瞿矀矁矂矃矄矅矆矇矈矉矊",
            "矋矌矍矎矏矐矑矒矓矔矕矖矗矘矙矚矛矜矝矞矟矠矡矢矣矤知矦矧矨矩矪矫矬短矮矯矰矱矲石矴矵矶矷矸矹矺矻矼矽矾矿碀碁碂碃碄碅碆碇碈碉碊",
            "碋碌碍碎碏碐碑碒碓碔碕碖碗碘碙碚碛碜碝碞碟碠碡碢碣碤碥碦碧碨碩碪碫碬碭碮碯碰碱碲碳碴碵碶碷碸碹確碻碼碽碾碿磀磁磂磃磄磅磆磇磈磉磊",
            "磋磌磍磎磏磐磑磒磓磔磕磖磗磘磙磚磛磜磝磞磟磠磡磢磣磤磥磦磧磨磩磪磫磬磭磮磯磰磱磲磳磴磵磶磷磸磹磺磻磼磽磾磿禀禁禂禃禄禅禆禇禈禉禊",
            "禋禌禍禎福禐禑禒禓禔禕禖禗禘禙禚禛禜禝禞禟禠禡禢禣禤禥禦禧禨禩禪禫禬禭禮禯禰禱禲禳禴禵禶禷禸禹禺离禼禽禾禿秀私秂秃秄秅秆秇秈秉秊",
            "秋秌种秎秏秐科秒秓秔秕秖秗秘秙秚秛秜秝秞租秠秡秢秣秤秥秦秧秨秩秪秫秬秭秮积称秱秲秳秴秵秶秷秸秹秺移秼秽秾秿窀突窂窃窄窅窆窇窈窉窊",
            "窋窌窍窎窏窐窑窒窓窔窕窖窗窘窙窚窛窜窝窞窟窠窡窢窣窤窥窦窧窨窩窪窫窬窭窮窯窰窱窲窳窴窵窶窷窸窹窺窻窼窽窾窿竀竁竂竃竄竅竆竇竈竉竊",
            "立竌竍竎竏竐竑竒竓竔竕竖竗竘站竚竛竜竝竞竟章竡竢竣竤童竦竧竨竩竪竫竬竭竮端竰竱竲竳竴竵競竷竸竹竺竻竼竽竾竿简箁箂箃箄箅箆箇箈箉箊",
            "箋箌箍箎箏箐箑箒箓箔箕箖算箘箙箚箛箜箝箞箟箠管箢箣箤箥箦箧箨箩箪箫箬箭箮箯箰箱箲箳箴箵箶箷箸箹箺箻箼箽箾箿節篁篂篃範篅篆篇篈築篊",
            "篋篌篍篎篏篐篑篒篓篔篕篖篗篘篙篚篛篜篝篞篟篠篡篢篣篤篥篦篧篨篩篪篫篬篭篮篯篰篱篲篳篴篵篶篷篸篹篺篻篼篽篾篿粀粁粂粃粄粅粆粇粈粉粊",
            "粋粌粍粎粏粐粑粒粓粔粕粖粗粘粙粚粛粜粝粞粟粠粡粢粣粤粥粦粧粨粩粪粫粬粭粮粯粰粱粲粳粴粵粶粷粸粹粺粻粼粽精粿糀糁糂糃糄糅糆糇糈糉糊",
            "糋糌糍糎糏糐糑糒糓糔糕糖糗糘糙糚糛糜糝糞糟糠糡糢糣糤糥糦糧糨糩糪糫糬糭糮糯糰糱糲糳糴糵糶糷糸糹糺系糼糽糾糿綀綁綂綃綄綅綆綇綈綉綊",
            "綋綌綍綎綏綐綑綒經綔綕綖綗綘継続綛綜綝綞綟綠綡綢綣綤綥綦綧綨綩綪綫綬維綮綯綰綱網綳綴綵綶綷綸綹綺綻綼綽綾綿緀緁緂緃緄緅緆緇緈緉緊",
            "緋緌緍緎総緐緑緒緓緔緕緖緗緘緙線緛緜緝緞緟締緡緢緣緤緥緦緧編緩緪緫緬緭緮緯緰緱緲緳練緵緶緷緸緹緺緻緼緽緾緿纀纁纂纃纄纅纆纇纈纉纊",
            "纋續纍纎纏纐纑纒纓纔纕纖纗纘纙纚纛纜纝纞纟纠纡红纣纤纥约级纨纩纪纫纬纭纮纯纰纱纲纳纴纵纶纷纸纹纺纻纼纽纾线绀绁绂练组绅细织终绉绊",
            "绋绌绍绎经绐绑绒结绔绕绖绗绘给绚绛络绝绞统绠绡绢绣绤绥绦继绨绩绪绫绬续绮绯绰绱绲绳维绵绶绷绸绹绺绻综绽绾绿羀羁羂羃羄羅羆羇羈羉羊",
            "羋羌羍美羏羐羑羒羓羔羕羖羗羘羙羚羛羜羝羞羟羠羡羢羣群羥羦羧羨義羪羫羬羭羮羯羰羱羲羳羴羵羶羷羸羹羺羻羼羽羾羿翀翁翂翃翄翅翆翇翈翉翊",
            "翋翌翍翎翏翐翑習翓翔翕翖翗翘翙翚翛翜翝翞翟翠翡翢翣翤翥翦翧翨翩翪翫翬翭翮翯翰翱翲翳翴翵翶翷翸翹翺翻翼翽翾翿肀肁肂肃肄肅肆肇肈肉肊",
            "肋肌肍肎肏肐肑肒肓肔肕肖肗肘肙肚肛肜肝肞肟肠股肢肣肤肥肦肧肨肩肪肫肬肭肮肯肰肱育肳肴肵肶肷肸肹肺肻肼肽肾肿胀胁胂胃胄胅胆胇胈胉胊",
            "胋背胍胎胏胐胑胒胓胔胕胖胗胘胙胚胛胜胝胞胟胠胡胢胣胤胥胦胧胨胩胪胫胬胭胮胯胰胱胲胳胴胵胶胷胸胹胺胻胼能胾胿膀膁膂膃膄膅膆膇膈膉膊",
            "膋膌膍膎膏膐膑膒膓膔膕膖膗膘膙膚膛膜膝膞膟膠膡膢膣膤膥膦膧膨膩膪膫膬膭膮膯膰膱膲膳膴膵膶膷膸膹膺膻膼膽膾膿臀臁臂臃臄臅臆臇臈臉臊",
            "臋臌臍臎臏臐臑臒臓臔臕臖臗臘臙臚臛臜臝臞臟臠臡臢臣臤臥臦臧臨臩自臫臬臭臮臯臰臱臲至致臵臶臷臸臹臺臻臼臽臾臿芀芁节芃芄芅芆芇芈芉芊",
            "芋芌芍芎芏芐芑芒芓芔芕芖芗芘芙芚芛芜芝芞芟芠芡芢芣芤芥芦芧芨芩芪芫芬芭芮芯芰花芲芳芴芵芶芷芸芹芺芻芼芽芾芿苀苁苂苃苄苅苆苇苈苉苊",
            "苋苌苍苎苏苐苑苒苓苔苕苖苗苘苙苚苛苜苝苞苟苠苡苢苣苤若苦苧苨苩苪苫苬苭苮苯苰英苲苳苴苵苶苷苸苹苺苻苼苽苾苿莀莁莂莃莄莅莆莇莈莉莊",
            "莋莌莍莎莏莐莑莒莓莔莕莖莗莘莙莚莛莜莝莞莟莠莡莢莣莤莥莦莧莨莩莪莫莬莭莮莯莰莱莲莳莴莵莶获莸莹莺莻莼莽莾莿菀菁菂菃菄菅菆菇菈菉菊",
            "菋菌菍菎菏菐菑菒菓菔菕菖菗菘菙菚菛菜菝菞菟菠菡菢菣菤菥菦菧菨菩菪菫菬菭菮華菰菱菲菳菴菵菶菷菸菹菺菻菼菽菾菿蒀蒁蒂蒃蒄蒅蒆蒇蒈蒉蒊",
            "蒋蒌蒍蒎蒏蒐蒑蒒蒓蒔蒕蒖蒗蒘蒙蒚蒛蒜蒝蒞蒟蒠蒡蒢蒣蒤蒥蒦蒧蒨蒩蒪蒫蒬蒭蒮蒯蒰蒱蒲蒳蒴蒵蒶蒷蒸蒹蒺蒻蒼蒽蒾蒿蓀蓁蓂蓃蓄蓅蓆蓇蓈蓉蓊",
            "蓋蓌蓍蓎蓏蓐蓑蓒蓓蓔蓕蓖蓗蓘蓙蓚蓛蓜蓝蓞蓟蓠蓡蓢蓣蓤蓥蓦蓧蓨蓩蓪蓫蓬蓭蓮蓯蓰蓱蓲蓳蓴蓵蓶蓷蓸蓹蓺蓻蓼蓽蓾蓿薀薁薂薃薄薅薆薇薈薉薊",
            "薋薌薍薎薏薐薑薒薓薔薕薖薗薘薙薚薛薜薝薞薟薠薡薢薣薤薥薦薧薨薩薪薫薬薭薮薯薰薱薲薳薴薵薶薷薸薹薺薻薼薽薾薿藀藁藂藃藄藅藆藇藈藉藊",
            "藋藌藍藎藏藐藑藒藓藔藕藖藗藘藙藚藛藜藝藞藟藠藡藢藣藤藥藦藧藨藩藪藫藬藭藮藯藰藱藲藳藴藵藶藷藸藹藺藻藼藽藾藿蚀蚁蚂蚃蚄蚅蚆蚇蚈蚉蚊",
            "蚋蚌蚍蚎蚏蚐蚑蚒蚓蚔蚕蚖蚗蚘蚙蚚蚛蚜蚝蚞蚟蚠蚡蚢蚣蚤蚥蚦蚧蚨蚩蚪蚫蚬蚭蚮蚯蚰蚱蚲蚳蚴蚵蚶蚷蚸蚹蚺蚻蚼蚽蚾蚿蛀蛁蛂蛃蛄蛅蛆蛇蛈蛉蛊",
            "蛋蛌蛍蛎蛏蛐蛑蛒蛓蛔蛕蛖蛗蛘蛙蛚蛛蛜蛝蛞蛟蛠蛡蛢蛣蛤蛥蛦蛧蛨蛩蛪蛫蛬蛭蛮蛯蛰蛱蛲蛳蛴蛵蛶蛷蛸蛹蛺蛻蛼蛽蛾蛿螀螁螂螃螄螅螆螇螈螉螊",
            "螋螌融螎螏螐螑螒螓螔螕螖螗螘螙螚螛螜螝螞螟螠螡螢螣螤螥螦螧螨螩螪螫螬螭螮螯螰螱螲螳螴螵螶螷螸螹螺螻螼螽螾螿蟀蟁蟂蟃蟄蟅蟆蟇蟈蟉蟊",
            "蟋蟌蟍蟎蟏蟐蟑蟒蟓蟔蟕蟖蟗蟘蟙蟚蟛蟜蟝蟞蟟蟠蟡蟢蟣蟤蟥蟦蟧蟨蟩蟪蟫蟬蟭蟮蟯蟰蟱蟲蟳蟴蟵蟶蟷蟸蟹蟺蟻蟼蟽蟾蟿袀袁袂袃袄袅袆袇袈袉袊",
            "袋袌袍袎袏袐袑袒袓袔袕袖袗袘袙袚袛袜袝袞袟袠袡袢袣袤袥袦袧袨袩袪被袬袭袮袯袰袱袲袳袴袵袶袷袸袹袺袻袼袽袾袿裀裁裂裃裄装裆裇裈裉裊",
            "裋裌裍裎裏裐裑裒裓裔裕裖裗裘裙裚裛補裝裞裟裠裡裢裣裤裥裦裧裨裩裪裫裬裭裮裯裰裱裲裳裴裵裶裷裸裹裺裻裼製裾裿覀要覂覃覄覅覆覇覈覉覊",
            "見覌覍覎規覐覑覒覓覔覕視覗覘覙覚覛覜覝覞覟覠覡覢覣覤覥覦覧覨覩親覫覬覭覮覯覰覱覲観覴覵覶覷覸覹覺覻覼覽覾覿觀见观觃规觅视觇览觉觊",
            "觋觌觍觎觏觐觑角觓觔觕觖觗觘觙觚觛觜觝觞觟觠觡觢解觤觥触觧觨觩觪觫觬觭觮觯觰觱觲觳觴觵觶觷觸觹觺觻觼觽觾觿誀誁誂誃誄誅誆誇誈誉誊",
            "誋誌認誎誏誐誑誒誓誔誕誖誗誘誙誚誛誜誝語誟誠誡誢誣誤誥誦誧誨誩說誫説読誮誯誰誱課誳誴誵誶誷誸誹誺誻誼誽誾調諀諁諂諃諄諅諆談諈諉諊",
            "請諌諍諎諏諐諑諒諓諔諕論諗諘諙諚諛諜諝諞諟諠諡諢諣諤諥諦諧諨諩諪諫諬諭諮諯諰諱諲諳諴諵諶諷諸諹諺諻諼諽諾諿讀讁讂讃讄讅讆讇讈讉變",
            "讋讌讍讎讏讐讑讒讓讔讕讖讗讘讙讚讛讜讝讞讟讠计订讣认讥讦讧讨让讪讫讬训议讯记讱讲讳讴讵讶讷许讹论讻讼讽设访诀证诂诃评诅识诇诈诉诊",
            "诋诌词诎诏诐译诒诓诔试诖诗诘诙诚诛诜话诞诟诠诡询诣诤该详诧诨诩诪诫诬语诮误诰诱诲诳说诵诶请诸诹诺读诼诽课诿貀貁貂貃貄貅貆貇貈貉貊",
            "貋貌貍貎貏貐貑貒貓貔貕貖貗貘貙貚貛貜貝貞貟負財貢貣貤貥貦貧貨販貪貫責貭貮貯貰貱貲貳貴貵貶買貸貹貺費貼貽貾貿賀賁賂賃賄賅賆資賈賉賊",
            "賋賌賍賎賏賐賑賒賓賔賕賖賗賘賙賚賛賜賝賞賟賠賡賢賣賤賥賦賧賨賩質賫賬賭賮賯賰賱賲賳賴賵賶賷賸賹賺賻購賽賾賿趀趁趂趃趄超趆趇趈趉越",
            "趋趌趍趎趏趐趑趒趓趔趕趖趗趘趙趚趛趜趝趞趟趠趡趢趣趤趥趦趧趨趩趪趫趬趭趮趯趰趱趲足趴趵趶趷趸趹趺趻趼趽趾趿跀跁跂跃跄跅跆跇跈跉跊",
            "跋跌跍跎跏跐跑跒跓跔跕跖跗跘跙跚跛跜距跞跟跠跡跢跣跤跥跦跧跨跩跪跫跬跭跮路跰跱跲跳跴践跶跷跸跹跺跻跼跽跾跿躀躁躂躃躄躅躆躇躈躉躊",
            "躋躌躍躎躏躐躑躒躓躔躕躖躗躘躙躚躛躜躝躞躟躠躡躢躣躤躥躦躧躨躩躪身躬躭躮躯躰躱躲躳躴躵躶躷躸躹躺躻躼躽躾躿軀軁軂軃軄軅軆軇軈軉車",
            "軋軌軍軎軏軐軑軒軓軔軕軖軗軘軙軚軛軜軝軞軟軠軡転軣軤軥軦軧軨軩軪軫軬軭軮軯軰軱軲軳軴軵軶軷軸軹軺軻軼軽軾軿辀辁辂较辄辅辆辇辈辉辊",
            "辋辌辍辎辏辐辑辒输辔辕辖辗辘辙辚辛辜辝辞辟辠辡辢辣辤辥辦辧辨辩辪辫辬辭辮辯辰辱農辳辴辵辶辷辸边辺辻込辽达辿迀迁迂迃迄迅迆过迈迉迊",
            "迋迌迍迎迏运近迒迓返迕迖迗还这迚进远违连迟迠迡迢迣迤迥迦迧迨迩迪迫迬迭迮迯述迱迲迳迴迵迶迷迸迹迺迻迼追迾迿邀邁邂邃還邅邆邇邈邉邊",
            "邋邌邍邎邏邐邑邒邓邔邕邖邗邘邙邚邛邜邝邞邟邠邡邢那邤邥邦邧邨邩邪邫邬邭邮邯邰邱邲邳邴邵邶邷邸邹邺邻邼邽邾邿郀郁郂郃郄郅郆郇郈郉郊",
            "郋郌郍郎郏郐郑郒郓郔郕郖郗郘郙郚郛郜郝郞郟郠郡郢郣郤郥郦郧部郩郪郫郬郭郮郯郰郱郲郳郴郵郶郷郸郹郺郻郼都郾郿醀醁醂醃醄醅醆醇醈醉醊",
            "醋醌醍醎醏醐醑醒醓醔醕醖醗醘醙醚醛醜醝醞醟醠醡醢醣醤醥醦醧醨醩醪醫醬醭醮醯醰醱醲醳醴醵醶醷醸醹醺醻醼醽醾醿釀釁釂釃釄釅釆采釈釉释",
            "釋里重野量釐金釒釓釔釕釖釗釘釙釚釛釜針釞釟釠釡釢釣釤釥釦釧釨釩釪釫釬釭釮釯釰釱釲釳釴釵釶釷釸釹釺釻釼釽釾釿銀銁銂銃銄銅銆銇銈銉銊",
            "銋銌銍銎銏銐銑銒銓銔銕銖銗銘銙銚銛銜銝銞銟銠銡銢銣銤銥銦銧銨銩銪銫銬銭銮銯銰銱銲銳銴銵銶銷銸銹銺銻銼銽銾銿鋀鋁鋂鋃鋄鋅鋆鋇鋈鋉鋊",
            "鋋鋌鋍鋎鋏鋐鋑鋒鋓鋔鋕鋖鋗鋘鋙鋚鋛鋜鋝鋞鋟鋠鋡鋢鋣鋤鋥鋦鋧鋨鋩鋪鋫鋬鋭鋮鋯鋰鋱鋲鋳鋴鋵鋶鋷鋸鋹鋺鋻鋼鋽鋾鋿鎀鎁鎂鎃鎄鎅鎆鎇鎈鎉鎊",
            "鎋鎌鎍鎎鎏鎐鎑鎒鎓鎔鎕鎖鎗鎘鎙鎚鎛鎜鎝鎞鎟鎠鎡鎢鎣鎤鎥鎦鎧鎨鎩鎪鎫鎬鎭鎮鎯鎰鎱鎲鎳鎴鎵鎶鎷鎸鎹鎺鎻鎼鎽鎾鎿鏀鏁鏂鏃鏄鏅鏆鏇鏈鏉鏊",
            "鏋鏌鏍鏎鏏鏐鏑鏒鏓鏔鏕鏖鏗鏘鏙鏚鏛鏜鏝鏞鏟鏠鏡鏢鏣鏤鏥鏦鏧鏨鏩鏪鏫鏬鏭鏮鏯鏰鏱鏲鏳鏴鏵鏶鏷鏸鏹鏺鏻鏼鏽鏾鏿钀钁钂钃钄钅钆钇针钉钊",
            "钋钌钍钎钏钐钑钒钓钔钕钖钗钘钙钚钛钜钝钞钟钠钡钢钣钤钥钦钧钨钩钪钫钬钭钮钯钰钱钲钳钴钵钶钷钸钹钺钻钼钽钾钿铀铁铂铃铄铅铆铇铈铉铊",
            "铋铌铍铎铏铐铑铒铓铔铕铖铗铘铙铚铛铜铝铞铟铠铡铢铣铤铥铦铧铨铩铪铫铬铭铮铯铰铱铲铳铴铵银铷铸铹铺铻铼铽链铿門閁閂閃閄閅閆閇閈閉閊",
            "開閌閍閎閏閐閑閒間閔閕閖閗閘閙閚閛閜閝閞閟閠閡関閣閤閥閦閧閨閩閪閫閬閭閮閯閰閱閲閳閴閵閶閷閸閹閺閻閼閽閾閿闀闁闂闃闄闅闆闇闈闉闊",
            "闋闌闍闎闏闐闑闒闓闔闕闖闗闘闙闚闛關闝闞闟闠闡闢闣闤闥闦闧门闩闪闫闬闭问闯闰闱闲闳间闵闶闷闸闹闺闻闼闽闾闿隀隁隂隃隄隅隆隇隈隉隊",
            "隋隌隍階随隐隑隒隓隔隕隖隗隘隙隚際障隝隞隟隠隡隢隣隤隥隦隧隨隩險隫隬隭隮隯隰隱隲隳隴隵隶隷隸隹隺隻隼隽难隿雀雁雂雃雄雅集雇雈雉雊",
            "雋雌雍雎雏雐雑雒雓雔雕雖雗雘雙雚雛雜雝雞雟雠雡離難雤雥雦雧雨雩雪雫雬雭雮雯雰雱雲雳雴雵零雷雸雹雺電雼雽雾雿鞀鞁鞂鞃鞄鞅鞆鞇鞈鞉鞊",
            "鞋鞌鞍鞎鞏鞐鞑鞒鞓鞔鞕鞖鞗鞘鞙鞚鞛鞜鞝鞞鞟鞠鞡鞢鞣鞤鞥鞦鞧鞨鞩鞪鞫鞬鞭鞮鞯鞰鞱鞲鞳鞴鞵鞶鞷鞸鞹鞺鞻鞼鞽鞾鞿韀韁韂韃韄韅韆韇韈韉韊",
            "韋韌韍韎韏韐韑韒韓韔韕韖韗韘韙韚韛韜韝韞韟韠韡韢韣韤韥韦韧韨韩韪韫韬韭韮韯韰韱韲音韴韵韶韷韸韹韺韻韼韽韾響颀颁颂颃预颅领颇颈颉颊",
            "颋颌颍颎颏颐频颒颓颔颕颖颗题颙颚颛颜额颞颟颠颡颢颣颤颥颦颧風颩颪颫颬颭颮颯颰颱颲颳颴颵颶颷颸颹颺颻颼颽颾颿飀飁飂飃飄飅飆飇飈飉飊",
            "飋飌飍风飏飐飑飒飓飔飕飖飗飘飙飚飛飜飝飞食飠飡飢飣飤飥飦飧飨飩飪飫飬飭飮飯飰飱飲飳飴飵飶飷飸飹飺飻飼飽飾飿馀馁馂馃馄馅馆馇馈馉馊",
            "馋馌馍馎馏馐馑馒馓馔馕首馗馘香馚馛馜馝馞馟馠馡馢馣馤馥馦馧馨馩馪馫馬馭馮馯馰馱馲馳馴馵馶馷馸馹馺馻馼馽馾馿駀駁駂駃駄駅駆駇駈駉駊",
            "駋駌駍駎駏駐駑駒駓駔駕駖駗駘駙駚駛駜駝駞駟駠駡駢駣駤駥駦駧駨駩駪駫駬駭駮駯駰駱駲駳駴駵駶駷駸駹駺駻駼駽駾駿骀骁骂骃骄骅骆骇骈骉骊",
            "骋验骍骎骏骐骑骒骓骔骕骖骗骘骙骚骛骜骝骞骟骠骡骢骣骤骥骦骧骨骩骪骫骬骭骮骯骰骱骲骳骴骵骶骷骸骹骺骻骼骽骾骿髀髁髂髃髄髅髆髇髈髉髊",
            "髋髌髍髎髏髐髑髒髓體髕髖髗高髙髚髛髜髝髞髟髠髡髢髣髤髥髦髧髨髩髪髫髬髭髮髯髰髱髲髳髴髵髶髷髸髹髺髻髼髽髾髿鮀鮁鮂鮃鮄鮅鮆鮇鮈鮉鮊",
            "鮋鮌鮍鮎鮏鮐鮑鮒鮓鮔鮕鮖鮗鮘鮙鮚鮛鮜鮝鮞鮟鮠鮡鮢鮣鮤鮥鮦鮧鮨鮩鮪鮫鮬鮭鮮鮯鮰鮱鮲鮳鮴鮵鮶鮷鮸鮹鮺鮻鮼鮽鮾鮿鯀鯁鯂鯃鯄鯅鯆鯇鯈鯉鯊",
            "鯋鯌鯍鯎鯏鯐鯑鯒鯓鯔鯕鯖鯗鯘鯙鯚鯛鯜鯝鯞鯟鯠鯡鯢鯣鯤鯥鯦鯧鯨鯩鯪鯫鯬鯭鯮鯯鯰鯱鯲鯳鯴鯵鯶鯷鯸鯹鯺鯻鯼鯽鯾鯿鲀鲁鲂鲃鲄鲅鲆鲇鲈鲉鲊",
            "鲋鲌鲍鲎鲏鲐鲑鲒鲓鲔鲕鲖鲗鲘鲙鲚鲛鲜鲝鲞鲟鲠鲡鲢鲣鲤鲥鲦鲧鲨鲩鲪鲫鲬鲭鲮鲯鲰鲱鲲鲳鲴鲵鲶鲷鲸鲹鲺鲻鲼鲽鲾鲿鳀鳁鳂鳃鳄鳅鳆鳇鳈鳉鳊",
            "鳋鳌鳍鳎鳏鳐鳑鳒鳓鳔鳕鳖鳗鳘鳙鳚鳛鳜鳝鳞鳟鳠鳡鳢鳣鳤鳥鳦鳧鳨鳩鳪鳫鳬鳭鳮鳯鳰鳱鳲鳳鳴鳵鳶鳷鳸鳹鳺鳻鳼鳽鳾鳿鶀鶁鶂鶃鶄鶅鶆鶇鶈鶉鶊",
            "鶋鶌鶍鶎鶏鶐鶑鶒鶓鶔鶕鶖鶗鶘鶙鶚鶛鶜鶝鶞鶟鶠鶡鶢鶣鶤鶥鶦鶧鶨鶩鶪鶫鶬鶭鶮鶯鶰鶱鶲鶳鶴鶵鶶鶷鶸鶹鶺鶻鶼鶽鶾鶿鷀鷁鷂鷃鷄鷅鷆鷇鷈鷉鷊",
            "鷋鷌鷍鷎鷏鷐鷑鷒鷓鷔鷕鷖鷗鷘鷙鷚鷛鷜鷝鷞鷟鷠鷡鷢鷣鷤鷥鷦鷧鷨鷩鷪鷫鷬鷭鷮鷯鷰鷱鷲鷳鷴鷵鷶鷷鷸鷹鷺鷻鷼鷽鷾鷿麀麁麂麃麄麅麆麇麈麉麊",
            "麋麌麍麎麏麐麑麒麓麔麕麖麗麘麙麚麛麜麝麞麟麠麡麢麣麤麥麦麧麨麩麪麫麬麭麮麯麰麱麲麳麴麵麶麷麸麹麺麻麼麽麾麿黀黁黂黃黄黅黆黇黈黉黊",
            "黋黌黍黎黏黐黑黒黓黔黕黖黗默黙黚黛黜黝點黟黠黡黢黣黤黥黦黧黨黩黪黫黬黭黮黯黰黱黲黳黴黵黶黷黸黹黺黻黼黽黾黿龀龁龂龃龄龅龆龇龈龉龊",
            "龋龌龍龎龏龐龑龒龓龔龕龖龗龘龙龚龛龜龝龞龟龠龡龢龣龤龥龦龧龨龩龪龫龬龭龮龯龰龱龲龳龴龵龶龷龸龹龺龻龼龽龾龿鿀鿁鿂鿃鿄鿅鿆鿇鿈鿉鿊",
            "鿋鿌鿍鿎鿏鿐鿑鿒鿓鿔鿕鿖鿗鿘鿙鿚鿛鿜鿝鿞鿟鿠鿡鿢鿣鿤鿥鿦鿧鿨鿩鿪鿫鿬鿭鿮鿯鿰鿱鿲鿳鿴鿵鿶鿷鿸鿹鿺鿻鿼鿽鿾鿿ꂀꂁꂂꂃꂄꂅꂆꂇꂈꂉꂊ",
            "ꂋꂌꂍꂎꂏꂐꂑꂒꂓꂔꂕꂖꂗꂘꂙꂚꂛꂜꂝꂞꂟꂠꂡꂢꂣꂤꂥꂦꂧꂨꂩꂪꂫꂬꂭꂮꂯꂰꂱꂲꂳꂴꂵꂶꂷꂸꂹꂺꂻꂼꂽꂾꂿꃀꃁꃂꃃꃄꃅꃆꃇꃈꃉꃊ",
            "ꃋꃌꃍꃎꃏꃐꃑꃒꃓꃔꃕꃖꃗꃘꃙꃚꃛꃜꃝꃞꃟꃠꃡꃢꃣꃤꃥꃦꃧꃨꃩꃪꃫꃬꃭꃮꃯꃰꃱꃲꃳꃴꃵꃶꃷꃸꃹꃺꃻꃼꃽꃾꃿꆀꆁꆂꆃꆄꆅꆆꆇꆈꆉꆊ",
            "ꆋꆌꆍꆎꆏꆐꆑꆒꆓꆔꆕꆖꆗꆘꆙꆚꆛꆜꆝꆞꆟꆠꆡꆢꆣꆤꆥꆦꆧꆨꆩꆪꆫꆬꆭꆮꆯꆰꆱꆲꆳꆴꆵꆶꆷꆸꆹꆺꆻꆼꆽꆾꆿꇀꇁꇂꇃꇄꇅꇆꇇꇈꇉꇊ",
            "ꇋꇌꇍꇎꇏꇐꇑꇒꇓꇔꇕꇖꇗꇘꇙꇚꇛꇜꇝꇞꇟꇠꇡꇢꇣꇤꇥꇦꇧꇨꇩꇪꇫꇬꇭꇮꇯꇰꇱꇲꇳꇴꇵꇶꇷꇸꇹꇺꇻꇼꇽꇾꇿꊀꊁꊂꊃꊄꊅꊆꊇꊈꊉꊊ",
            "ꊋꊌꊍꊎꊏꊐꊑꊒꊓꊔꊕꊖꊗꊘꊙꊚꊛꊜꊝꊞꊟꊠꊡꊢꊣꊤꊥꊦꊧꊨꊩꊪꊫꊬꊭꊮꊯꊰꊱꊲꊳꊴꊵꊶꊷꊸꊹꊺꊻꊼꊽꊾꊿꋀꋁꋂꋃꋄꋅꋆꋇꋈꋉꋊ",
            "ꋋꋌꋍꋎꋏꋐꋑꋒꋓꋔꋕꋖꋗꋘꋙꋚꋛꋜꋝꋞꋟꋠꋡꋢꋣꋤꋥꋦꋧꋨꋩꋪꋫꋬꋭꋮꋯꋰꋱꋲꋳꋴꋵꋶꋷꋸꋹꋺꋻꋼꋽꋾꋿꎀꎁꎂꎃꎄꎅꎆꎇꎈꎉꎊ",
            "ꎋꎌꎍꎎꎏꎐꎑꎒꎓꎔꎕꎖꎗꎘꎙꎚꎛꎜꎝꎞꎟꎠꎡꎢꎣꎤꎥꎦꎧꎨꎩꎪꎫꎬꎭꎮꎯꎰꎱꎲꎳꎴꎵꎶꎷꎸꎹꎺꎻꎼꎽꎾꎿꏀꏁꏂꏃꏄꏅꏆꏇꏈꏉꏊ",
            "ꏋꏌꏍꏎꏏꏐꏑꏒꏓꏔꏕꏖꏗꏘꏙꏚꏛꏜꏝꏞꏟꏠꏡꏢꏣꏤꏥꏦꏧꏨꏩꏪꏫꏬꏭꏮꏯꏰꏱꏲꏳꏴꏵꏶꏷꏸꏹꏺꏻꏼꏽꏾꏿꒀꒁꒂꒃꒄꒅꒆꒇꒈꒉꒊ",
            "ꒋꒌꓐꓑꓒꓓꓔꓕꓖꓗꓘꓙꓚꓛꓜꓝꓞꓟꓠꓡꓢꓣꓤꓥꓦꓧꓨꓩꓪꓫꓬꓭꓮꓯꓰꓱꓲꓳꓴꓵꓶꓷꓸꓹꓺꓻꓼꓽꖀꖁꖂꖃꖄꖅꖆꖇꖈꖉꖊꖋꖌꖍꖎꖏ",
            "ꖐꖑꖒꖓꖔꖕꖖꖗꖘꖙꖚꖛꖜꖝꖞꖟꖠꖡꖢꖣꖤꖥꖦꖧꖨꖩꖪꖫꖬꖭꖮꖯꖰꖱꖲꖳꖴꖵꖶꖷꖸꖹꖺꖻꖼꖽꖾꖿꗀꗁꗂꗃꗄꗅꗆꗇꗈꗉꗊꗋꗌꗍꗎꗏ",
            "ꗐꗑꗒꗓꗔꗕꗖꗗꗘꗙꗚꗛꗜꗝꗞꗟꗠꗡꗢꗣꗤꗥꗦꗧꗨꗩꗪꗫꗬꗭꗮꗯꗰꗱꗲꗳꗴꗵꗶꗷꗸꗹꗺꗻꗼꗽꗾꗿꚀꚁꚂꚃꚄꚅꚆꚇꚈꚉꚊꚋꚌꚍꚎꚏ",
            "ꚐꚑꚒꚓꚔꚕꚖꚗꚘꚙꚚꚛꚜꚝꚠꚡꚢꚣꚤꚥꚦꚧꚨꚩꚪꚫꚬꚭꚮꚯꚰꚱꚲꚳꚴꚵꚶꚷꚸꚹꚺꚻꚼꚽꚾꚿꛀꛁꛂꛃꛄꛅꛆꛇꛈꛉꛊꛋꛌꛍꛎꛏꛐꛑ",
            "ꛒꛓꛔꛕꛖꛗꛘꛙꛚꛛꛜꛝꛞꛟꛠꛡꛢꛣꛤꛥꛦꛧꛨꛩꛪꛫꛬꛭꛮꛯꞀꞁꞂꞃꞄꞅꞆꞇꞈꞋꞌꞍꞎꞏꞐꞑꞒꞓꞔꞕꞖꞗꞘꞙꞚꞛꞜꞝꞞꞟꞠꞡꞢꞣ",
            "ꞤꞥꞦꞧꞨꞩꞪꞫꞬꞭꞮꞯꞰꞱꞲꞳꞴꞵꞶꞷꞸꞹꞺꞻꞼꞽꞾꞿꟀꟁꟂꟃꟄꟅꟆꟇꟈꟉꟊꟐꟑꟓꟕꟖꟗꟘꟙꟲꟳꟴꟵꟶꟷꟸꟹꟺꟻꟼꟽꟾꟿꢂꢃꢄ",
            "ꢅꢆꢇꢈꢉꢊꢋꢌꢍꢎꢏꢐꢑꢒꢓꢔꢕꢖꢗꢘꢙꢚꢛꢜꢝꢞꢟꢠꢡꢢꢣꢤꢥꢦꢧꢨꢩꢪꢫꢬꢭꢮꢯꢰꢱꢲꢳ꣐꣑꣒꣓꣔꣕꣖꣗꣘꣙ꣲꣳꣴꣵꣶꣷꣻ",
            "ꣽꣾꦄꦅꦆꦇꦈꦉꦊꦋꦌꦍꦎꦏꦐꦑꦒꦓꦔꦕꦖꦗꦘꦙꦚꦛꦜꦝꦞꦟꦠꦡꦢꦣꦤꦥꦦꦧꦨꦩꦪꦫꦬꦭꦮꦯꦰꦱꦲꧏ꧐꧑꧒꧓꧔꧕꧖꧗꧘꧙ꧠꧡꧢꧣ",
            "ꧤꧦꧧꧨꧩꧪꧫꧬꧭꧮꧯ꧰꧱꧲꧳꧴꧵꧶꧷꧸꧹ꧺꧻꧼꧽꧾꪀꪁꪂꪃꪄꪅꪆꪇꪈꪉꪊꪋꪌꪍꪎꪏꪐꪑꪒꪓꪔꪕꪖꪗꪘꪙꪚꪛꪜꪝꪞꪟꪠꪡꪢꪣꪤꪥ",
            "ꪦꪧꪨꪩꪪꪫꪬꪭꪮꪯꪱꪵꪶꪹꪺꪻꪼꪽꫀꫂꫛꫜꫝꫠꫡꫢꫣꫤꫥꫦꫧꫨꫩꫪꫲꫳꫴꮀꮁꮂꮃꮄꮅꮆꮇꮈꮉꮊꮋꮌꮍꮎꮏꮐꮑꮒꮓꮔꮕꮖꮗꮘꮙꮚ",
            "ꮛꮜꮝꮞꮟꮠꮡꮢꮣꮤꮥꮦꮧꮨꮩꮪꮫꮬꮭꮮꮯꮰꮱꮲꮳꮴꮵꮶꮷꮸꮹꮺꮻꮼꮽꮾꮿꯀꯁꯂꯃꯄꯅꯆꯇꯈꯉꯊꯋꯌꯍꯎꯏꯐꯑꯒꯓꯔꯕꯖꯗꯘꯙꯚ",
            "ꯛꯜꯝꯞꯟꯠꯡꯢ꯰꯱꯲꯳꯴꯵꯶꯷꯸꯹검겁겂것겄겅겆겇겈겉겊겋게겍겎겏겐겑겒겓겔겕겖겗겘겙겚겛겜겝겞겟겠겡겢겣겤겥겦겧겨격겪겫견겭",
            "겮겯결겱겲겳겴겵겶겷겸겹겺겻겼경겾겿곀곁곂곃계곅곆곇곈곉곊곋곌곍곎곏곐곑곒곓곔곕곖곗곘곙곚곛곜곝곞곟고곡곢곣곤곥곦곧골곩곪곫곬곭",
            "곮곯곰곱곲곳곴공곶곷곸곹곺곻과곽곾곿궀궁궂궃궄궅궆궇궈궉궊궋권궍궎궏궐궑궒궓궔궕궖궗궘궙궚궛궜궝궞궟궠궡궢궣궤궥궦궧궨궩궪궫궬궭",
            "궮궯궰궱궲궳궴궵궶궷궸궹궺궻궼궽궾궿귀귁귂귃귄귅귆귇귈귉귊귋귌귍귎귏귐귑귒귓귔귕귖귗귘귙귚귛규귝귞귟균귡귢귣귤귥귦귧귨귩귪귫귬귭",
            "귮귯귰귱귲귳귴귵귶귷그극귺귻근귽귾귿꺀꺁꺂꺃꺄꺅꺆꺇꺈꺉꺊꺋꺌꺍꺎꺏꺐꺑꺒꺓꺔꺕꺖꺗꺘꺙꺚꺛꺜꺝꺞꺟꺠꺡꺢꺣꺤꺥꺦꺧꺨꺩꺪꺫꺬꺭",
            "꺮꺯꺰꺱꺲꺳꺴꺵꺶꺷꺸꺹꺺꺻꺼꺽꺾꺿껀껁껂껃껄껅껆껇껈껉껊껋껌껍껎껏껐껑껒껓껔껕껖껗께껙껚껛껜껝껞껟껠껡껢껣껤껥껦껧껨껩껪껫껬껭",
            "껮껯껰껱껲껳껴껵껶껷껸껹껺껻껼껽껾껿꾀꾁꾂꾃꾄꾅꾆꾇꾈꾉꾊꾋꾌꾍꾎꾏꾐꾑꾒꾓꾔꾕꾖꾗꾘꾙꾚꾛꾜꾝꾞꾟꾠꾡꾢꾣꾤꾥꾦꾧꾨꾩꾪꾫꾬꾭",
            "꾮꾯꾰꾱꾲꾳꾴꾵꾶꾷꾸꾹꾺꾻꾼꾽꾾꾿꿀꿁꿂꿃꿄꿅꿆꿇꿈꿉꿊꿋꿌꿍꿎꿏꿐꿑꿒꿓꿔꿕꿖꿗꿘꿙꿚꿛꿜꿝꿞꿟꿠꿡꿢꿣꿤꿥꿦꿧꿨꿩꿪꿫꿬꿭",
            "꿮꿯꿰꿱꿲꿳꿴꿵꿶꿷꿸꿹꿺꿻꿼꿽꿾꿿낀낁낂낃낄낅낆낇낈낉낊낋낌낍낎낏낐낑낒낓낔낕낖낗나낙낚낛난낝낞낟날낡낢낣낤낥낦낧남납낪낫났낭",
            "낮낯낰낱낲낳내낵낶낷낸낹낺낻낼낽낾낿냀냁냂냃냄냅냆냇냈냉냊냋냌냍냎냏냐냑냒냓냔냕냖냗냘냙냚냛냜냝냞냟냠냡냢냣냤냥냦냧냨냩냪냫냬냭",
            "냮냯냰냱냲냳냴냵냶냷냸냹냺냻냼냽냾냿놀놁놂놃놄놅놆놇놈놉놊놋놌농놎놏놐놑높놓놔놕놖놗놘놙놚놛놜놝놞놟놠놡놢놣놤놥놦놧놨놩놪놫놬놭",
            "놮놯놰놱놲놳놴놵놶놷놸놹놺놻놼놽놾놿뇀뇁뇂뇃뇄뇅뇆뇇뇈뇉뇊뇋뇌뇍뇎뇏뇐뇑뇒뇓뇔뇕뇖뇗뇘뇙뇚뇛뇜뇝뇞뇟뇠뇡뇢뇣뇤뇥뇦뇧뇨뇩뇪뇫뇬뇭",
            "뇮뇯뇰뇱뇲뇳뇴뇵뇶뇷뇸뇹뇺뇻뇼뇽뇾뇿늀늁늂늃늄늅늆늇늈늉늊늋늌늍늎늏느늑늒늓는늕늖늗늘늙늚늛늜늝늞늟늠늡늢늣늤능늦늧늨늩늪늫늬늭",
            "늮늯늰늱늲늳늴늵늶늷늸늹늺늻늼늽늾늿닀닁닂닃닄닅닆닇니닉닊닋닌닍닎닏닐닑닒닓닔닕닖닗님닙닚닛닜닝닞닟닠닡닢닣다닥닦닧단닩닪닫달닭",
            "닮닯닰닱닲닳담답닶닷닸당닺닻닼닽닾닿뎀뎁뎂뎃뎄뎅뎆뎇뎈뎉뎊뎋뎌뎍뎎뎏뎐뎑뎒뎓뎔뎕뎖뎗뎘뎙뎚뎛뎜뎝뎞뎟뎠뎡뎢뎣뎤뎥뎦뎧뎨뎩뎪뎫뎬뎭",
            "뎮뎯뎰뎱뎲뎳뎴뎵뎶뎷뎸뎹뎺뎻뎼뎽뎾뎿돀돁돂돃도독돆돇돈돉돊돋돌돍돎돏돐돑돒돓돔돕돖돗돘동돚돛돜돝돞돟돠돡돢돣돤돥돦돧돨돩돪돫돬돭",
            "돮돯돰돱돲돳돴돵돶돷돸돹돺돻돼돽돾돿뒀뒁뒂뒃뒄뒅뒆뒇뒈뒉뒊뒋뒌뒍뒎뒏뒐뒑뒒뒓뒔뒕뒖뒗뒘뒙뒚뒛뒜뒝뒞뒟뒠뒡뒢뒣뒤뒥뒦뒧뒨뒩뒪뒫뒬뒭",
            "뒮뒯뒰뒱뒲뒳뒴뒵뒶뒷뒸뒹뒺뒻뒼뒽뒾뒿듀듁듂듃듄듅듆듇듈듉듊듋듌듍듎듏듐듑듒듓듔듕듖듗듘듙듚듛드득듞듟든듡듢듣들듥듦듧듨듩듪듫듬듭",
            "듮듯듰등듲듳듴듵듶듷듸듹듺듻듼듽듾듿떀떁떂떃떄떅떆떇떈떉떊떋떌떍떎떏떐떑떒떓떔떕떖떗떘떙떚떛떜떝떞떟떠떡떢떣떤떥떦떧떨떩떪떫떬떭",
            "떮떯떰떱떲떳떴떵떶떷떸떹떺떻떼떽떾떿뗀뗁뗂뗃뗄뗅뗆뗇뗈뗉뗊뗋뗌뗍뗎뗏뗐뗑뗒뗓뗔뗕뗖뗗뗘뗙뗚뗛뗜뗝뗞뗟뗠뗡뗢뗣뗤뗥뗦뗧뗨뗩뗪뗫뗬뗭",
            "뗮뗯뗰뗱뗲뗳뗴뗵뗶뗷뗸뗹뗺뗻뗼뗽뗾뗿뚀뚁뚂뚃뚄뚅뚆뚇뚈뚉뚊뚋뚌뚍뚎뚏뚐뚑뚒뚓뚔뚕뚖뚗뚘뚙뚚뚛뚜뚝뚞뚟뚠뚡뚢뚣뚤뚥뚦뚧뚨뚩뚪뚫뚬뚭",
            "뚮뚯뚰뚱뚲뚳뚴뚵뚶뚷뚸뚹뚺뚻뚼뚽뚾뚿뛀뛁뛂뛃뛄뛅뛆뛇뛈뛉뛊뛋뛌뛍뛎뛏뛐뛑뛒뛓뛔뛕뛖뛗뛘뛙뛚뛛뛜뛝뛞뛟뛠뛡뛢뛣뛤뛥뛦뛧뛨뛩뛪뛫뛬뛭",
            "뛮뛯뛰뛱뛲뛳뛴뛵뛶뛷뛸뛹뛺뛻뛼뛽뛾뛿란랁랂랃랄랅랆랇랈랉랊랋람랍랎랏랐랑랒랓랔랕랖랗래랙랚랛랜랝랞랟랠랡랢랣랤랥랦랧램랩랪랫랬랭",
            "랮랯랰랱랲랳랴략랶랷랸랹랺랻랼랽랾랿럀럁럂럃럄럅럆럇럈량럊럋럌럍럎럏럐럑럒럓럔럕럖럗럘럙럚럛럜럝럞럟럠럡럢럣럤럥럦럧럨럩럪럫러럭",
            "럮럯런럱럲럳럴럵럶럷럸럹럺럻럼럽럾럿뢀뢁뢂뢃뢄뢅뢆뢇뢈뢉뢊뢋뢌뢍뢎뢏뢐뢑뢒뢓뢔뢕뢖뢗뢘뢙뢚뢛뢜뢝뢞뢟뢠뢡뢢뢣뢤뢥뢦뢧뢨뢩뢪뢫뢬뢭",
            "뢮뢯뢰뢱뢲뢳뢴뢵뢶뢷뢸뢹뢺뢻뢼뢽뢾뢿룀룁룂룃룄룅룆룇룈룉룊룋료룍룎룏룐룑룒룓룔룕룖룗룘룙룚룛룜룝룞룟룠룡룢룣룤룥룦룧루룩룪룫룬룭",
            "룮룯룰룱룲룳룴룵룶룷룸룹룺룻룼룽룾룿릀릁릂릃름릅릆릇릈릉릊릋릌릍릎릏릐릑릒릓릔릕릖릗릘릙릚릛릜릝릞릟릠릡릢릣릤릥릦릧릨릩릪릫리릭",
            "릮릯린릱릲릳릴릵릶릷릸릹릺릻림립릾릿맀링맂맃맄맅맆맇마막맊맋만맍많맏말맑맒맓맔맕맖맗맘맙맚맛맜망맞맟맠맡맢맣매맥맦맧맨맩맪맫맬맭",
            "맮맯맰맱맲맳맴맵맶맷맸맹맺맻맼맽맾맿몀몁몂몃몄명몆몇몈몉몊몋몌몍몎몏몐몑몒몓몔몕몖몗몘몙몚몛몜몝몞몟몠몡몢몣몤몥몦몧모목몪몫몬몭",
            "몮몯몰몱몲몳몴몵몶몷몸몹몺못몼몽몾몿뫀뫁뫂뫃뫄뫅뫆뫇뫈뫉뫊뫋뫌뫍뫎뫏뫐뫑뫒뫓뫔뫕뫖뫗뫘뫙뫚뫛뫜뫝뫞뫟뫠뫡뫢뫣뫤뫥뫦뫧뫨뫩뫪뫫뫬뫭",
            "뫮뫯뫰뫱뫲뫳뫴뫵뫶뫷뫸뫹뫺뫻뫼뫽뫾뫿뮀뮁뮂뮃뮄뮅뮆뮇뮈뮉뮊뮋뮌뮍뮎뮏뮐뮑뮒뮓뮔뮕뮖뮗뮘뮙뮚뮛뮜뮝뮞뮟뮠뮡뮢뮣뮤뮥뮦뮧뮨뮩뮪뮫뮬뮭",
            "뮮뮯뮰뮱뮲뮳뮴뮵뮶뮷뮸뮹뮺뮻뮼뮽뮾뮿므믁믂믃믄믅믆믇믈믉믊믋믌믍믎믏믐믑믒믓믔믕믖믗믘믙믚믛믜믝믞믟믠믡믢믣믤믥믦믧믨믩믪믫믬믭",
            "믮믯믰믱믲믳믴믵믶믷미믹믺믻민믽믾믿벀벁벂벃버벅벆벇번벉벊벋벌벍벎벏벐벑벒벓범법벖벗벘벙벚벛벜벝벞벟베벡벢벣벤벥벦벧벨벩벪벫벬벭",
            "벮벯벰벱벲벳벴벵벶벷벸벹벺벻벼벽벾벿변볁볂볃별볅볆볇볈볉볊볋볌볍볎볏볐병볒볓볔볕볖볗볘볙볚볛볜볝볞볟볠볡볢볣볤볥볦볧볨볩볪볫볬볭",
            "볮볯볰볱볲볳보복볶볷본볹볺볻볼볽볾볿부북붂붃분붅붆붇불붉붊붋붌붍붎붏붐붑붒붓붔붕붖붗붘붙붚붛붜붝붞붟붠붡붢붣붤붥붦붧붨붩붪붫붬붭",
            "붮붯붰붱붲붳붴붵붶붷붸붹붺붻붼붽붾붿뷀뷁뷂뷃뷄뷅뷆뷇뷈뷉뷊뷋뷌뷍뷎뷏뷐뷑뷒뷓뷔뷕뷖뷗뷘뷙뷚뷛뷜뷝뷞뷟뷠뷡뷢뷣뷤뷥뷦뷧뷨뷩뷪뷫뷬뷭",
            "뷮뷯뷰뷱뷲뷳뷴뷵뷶뷷뷸뷹뷺뷻뷼뷽뷾뷿뺀뺁뺂뺃뺄뺅뺆뺇뺈뺉뺊뺋뺌뺍뺎뺏뺐뺑뺒뺓뺔뺕뺖뺗뺘뺙뺚뺛뺜뺝뺞뺟뺠뺡뺢뺣뺤뺥뺦뺧뺨뺩뺪뺫뺬뺭",
            "뺮뺯뺰뺱뺲뺳뺴뺵뺶뺷뺸뺹뺺뺻뺼뺽뺾뺿뻀뻁뻂뻃뻄뻅뻆뻇뻈뻉뻊뻋뻌뻍뻎뻏뻐뻑뻒뻓뻔뻕뻖뻗뻘뻙뻚뻛뻜뻝뻞뻟뻠뻡뻢뻣뻤뻥뻦뻧뻨뻩뻪뻫뻬뻭",
            "뻮뻯뻰뻱뻲뻳뻴뻵뻶뻷뻸뻹뻺뻻뻼뻽뻾뻿뾀뾁뾂뾃뾄뾅뾆뾇뾈뾉뾊뾋뾌뾍뾎뾏뾐뾑뾒뾓뾔뾕뾖뾗뾘뾙뾚뾛뾜뾝뾞뾟뾠뾡뾢뾣뾤뾥뾦뾧뾨뾩뾪뾫뾬뾭",
            "뾮뾯뾰뾱뾲뾳뾴뾵뾶뾷뾸뾹뾺뾻뾼뾽뾾뾿뿀뿁뿂뿃뿄뿅뿆뿇뿈뿉뿊뿋뿌뿍뿎뿏뿐뿑뿒뿓뿔뿕뿖뿗뿘뿙뿚뿛뿜뿝뿞뿟뿠뿡뿢뿣뿤뿥뿦뿧뿨뿩뿪뿫뿬뿭",
            "뿮뿯뿰뿱뿲뿳뿴뿵뿶뿷뿸뿹뿺뿻뿼뿽뿾뿿삀삁삂삃삄삅삆삇삈삉삊삋삌삍삎삏삐삑삒삓삔삕삖삗삘삙삚삛삜삝삞삟삠삡삢삣삤삥삦삧삨삩삪삫사삭",
            "삮삯산삱삲삳살삵삶삷삸삹삺삻삼삽삾삿샀상샂샃샄샅샆샇새색샊샋샌샍샎샏샐샑샒샓샔샕샖샗샘샙샚샛샜생샞샟샠샡샢샣샤샥샦샧샨샩샪샫샬샭",
            "샮샯샰샱샲샳샴샵샶샷샸샹샺샻샼샽샾샿솀솁솂솃솄솅솆솇솈솉솊솋소속솎솏손솑솒솓솔솕솖솗솘솙솚솛솜솝솞솟솠송솢솣솤솥솦솧솨솩솪솫솬솭",
            "솮솯솰솱솲솳솴솵솶솷솸솹솺솻솼솽솾솿쇀쇁쇂쇃쇄쇅쇆쇇쇈쇉쇊쇋쇌쇍쇎쇏쇐쇑쇒쇓쇔쇕쇖쇗쇘쇙쇚쇛쇜쇝쇞쇟쇠쇡쇢쇣쇤쇥쇦쇧쇨쇩쇪쇫쇬쇭",
            "쇮쇯쇰쇱쇲쇳쇴쇵쇶쇷쇸쇹쇺쇻쇼쇽쇾쇿슀슁슂슃슄슅슆슇슈슉슊슋슌슍슎슏슐슑슒슓슔슕슖슗슘슙슚슛슜슝슞슟슠슡슢슣스슥슦슧슨슩슪슫슬슭",
            "슮슯슰슱슲슳슴습슶슷슸승슺슻슼슽슾슿싀싁싂싃싄싅싆싇싈싉싊싋싌싍싎싏싐싑싒싓싔싕싖싗싘싙싚싛시식싞싟신싡싢싣실싥싦싧싨싩싪싫심십",
            "싮싯싰싱싲싳싴싵싶싷싸싹싺싻싼싽싾싿쎀쎁쎂쎃쎄쎅쎆쎇쎈쎉쎊쎋쎌쎍쎎쎏쎐쎑쎒쎓쎔쎕쎖쎗쎘쎙쎚쎛쎜쎝쎞쎟쎠쎡쎢쎣쎤쎥쎦쎧쎨쎩쎪쎫쎬쎭",
            "쎮쎯쎰쎱쎲쎳쎴쎵쎶쎷쎸쎹쎺쎻쎼쎽쎾쎿쏀쏁쏂쏃쏄쏅쏆쏇쏈쏉쏊쏋쏌쏍쏎쏏쏐쏑쏒쏓쏔쏕쏖쏗쏘쏙쏚쏛쏜쏝쏞쏟쏠쏡쏢쏣쏤쏥쏦쏧쏨쏩쏪쏫쏬쏭",
            "쏮쏯쏰쏱쏲쏳쏴쏵쏶쏷쏸쏹쏺쏻쏼쏽쏾쏿쒀쒁쒂쒃쒄쒅쒆쒇쒈쒉쒊쒋쒌쒍쒎쒏쒐쒑쒒쒓쒔쒕쒖쒗쒘쒙쒚쒛쒜쒝쒞쒟쒠쒡쒢쒣쒤쒥쒦쒧쒨쒩쒪쒫쒬쒭",
            "쒮쒯쒰쒱쒲쒳쒴쒵쒶쒷쒸쒹쒺쒻쒼쒽쒾쒿쓀쓁쓂쓃쓄쓅쓆쓇쓈쓉쓊쓋쓌쓍쓎쓏쓐쓑쓒쓓쓔쓕쓖쓗쓘쓙쓚쓛쓜쓝쓞쓟쓠쓡쓢쓣쓤쓥쓦쓧쓨쓩쓪쓫쓬쓭",
            "쓮쓯쓰쓱쓲쓳쓴쓵쓶쓷쓸쓹쓺쓻쓼쓽쓾쓿얀얁얂얃얄얅얆얇얈얉얊얋얌얍얎얏얐양얒얓얔얕얖얗얘얙얚얛얜얝얞얟얠얡얢얣얤얥얦얧얨얩얪얫얬얭",
            "얮얯얰얱얲얳어억얶얷언얹얺얻얼얽얾얿엀엁엂엃엄업없엇었엉엊엋엌엍엎엏에엑엒엓엔엕엖엗엘엙엚엛엜엝엞엟엠엡엢엣엤엥엦엧엨엩엪엫여역",
            "엮엯연엱엲엳열엵엶엷엸엹엺엻염엽엾엿욀욁욂욃욄욅욆욇욈욉욊욋욌욍욎욏욐욑욒욓요욕욖욗욘욙욚욛욜욝욞욟욠욡욢욣욤욥욦욧욨용욪욫욬욭",
            "욮욯우욱욲욳운욵욶욷울욹욺욻욼욽욾욿움웁웂웃웄웅웆웇웈웉웊웋워웍웎웏원웑웒웓월웕웖웗웘웙웚웛웜웝웞웟웠웡웢웣웤웥웦웧웨웩웪웫웬웭",
            "웮웯웰웱웲웳웴웵웶웷웸웹웺웻웼웽웾웿잀잁잂잃임입잆잇있잉잊잋잌잍잎잏자작잒잓잔잕잖잗잘잙잚잛잜잝잞잟잠잡잢잣잤장잦잧잨잩잪잫재잭",
            "잮잯잰잱잲잳잴잵잶잷잸잹잺잻잼잽잾잿쟀쟁쟂쟃쟄쟅쟆쟇쟈쟉쟊쟋쟌쟍쟎쟏쟐쟑쟒쟓쟔쟕쟖쟗쟘쟙쟚쟛쟜쟝쟞쟟쟠쟡쟢쟣쟤쟥쟦쟧쟨쟩쟪쟫쟬쟭",
            "쟮쟯쟰쟱쟲쟳쟴쟵쟶쟷쟸쟹쟺쟻쟼쟽쟾쟿좀좁좂좃좄종좆좇좈좉좊좋좌좍좎좏좐좑좒좓좔좕좖좗좘좙좚좛좜좝좞좟좠좡좢좣좤좥좦좧좨좩좪좫좬좭",
            "좮좯좰좱좲좳좴좵좶좷좸좹좺좻좼좽좾좿죀죁죂죃죄죅죆죇죈죉죊죋죌죍죎죏죐죑죒죓죔죕죖죗죘죙죚죛죜죝죞죟죠죡죢죣죤죥죦죧죨죩죪죫죬죭",
            "죮죯죰죱죲죳죴죵죶죷죸죹죺죻주죽죾죿즀즁즂즃즄즅즆즇즈즉즊즋즌즍즎즏즐즑즒즓즔즕즖즗즘즙즚즛즜증즞즟즠즡즢즣즤즥즦즧즨즩즪즫즬즭",
            "즮즯즰즱즲즳즴즵즶즷즸즹즺즻즼즽즾즿지직짂짃진짅짆짇질짉짊짋짌짍짎짏짐집짒짓짔징짖짗짘짙짚짛짜짝짞짟짠짡짢짣짤짥짦짧짨짩짪짫짬짭",
            "짮짯짰짱짲짳짴짵짶짷째짹짺짻짼짽짾짿쪀쪁쪂쪃쪄쪅쪆쪇쪈쪉쪊쪋쪌쪍쪎쪏쪐쪑쪒쪓쪔쪕쪖쪗쪘쪙쪚쪛쪜쪝쪞쪟쪠쪡쪢쪣쪤쪥쪦쪧쪨쪩쪪쪫쪬쪭",
            "쪮쪯쪰쪱쪲쪳쪴쪵쪶쪷쪸쪹쪺쪻쪼쪽쪾쪿쫀쫁쫂쫃쫄쫅쫆쫇쫈쫉쫊쫋쫌쫍쫎쫏쫐쫑쫒쫓쫔쫕쫖쫗쫘쫙쫚쫛쫜쫝쫞쫟쫠쫡쫢쫣쫤쫥쫦쫧쫨쫩쫪쫫쫬쫭",
            "쫮쫯쫰쫱쫲쫳쫴쫵쫶쫷쫸쫹쫺쫻쫼쫽쫾쫿쮀쮁쮂쮃쮄쮅쮆쮇쮈쮉쮊쮋쮌쮍쮎쮏쮐쮑쮒쮓쮔쮕쮖쮗쮘쮙쮚쮛쮜쮝쮞쮟쮠쮡쮢쮣쮤쮥쮦쮧쮨쮩쮪쮫쮬쮭",
            "쮮쮯쮰쮱쮲쮳쮴쮵쮶쮷쮸쮹쮺쮻쮼쮽쮾쮿쯀쯁쯂쯃쯄쯅쯆쯇쯈쯉쯊쯋쯌쯍쯎쯏쯐쯑쯒쯓쯔쯕쯖쯗쯘쯙쯚쯛쯜쯝쯞쯟쯠쯡쯢쯣쯤쯥쯦쯧쯨쯩쯪쯫쯬쯭",
            "쯮쯯쯰쯱쯲쯳쯴쯵쯶쯷쯸쯹쯺쯻쯼쯽쯾쯿첀첁첂첃첄첅첆첇첈첉첊첋첌첍첎첏첐첑첒첓첔첕첖첗처척첚첛천첝첞첟철첡첢첣첤첥첦첧첨첩첪첫첬청",
            "첮첯첰첱첲첳체첵첶첷첸첹첺첻첼첽첾첿쳀쳁쳂쳃쳄쳅쳆쳇쳈쳉쳊쳋쳌쳍쳎쳏쳐쳑쳒쳓쳔쳕쳖쳗쳘쳙쳚쳛쳜쳝쳞쳟쳠쳡쳢쳣쳤쳥쳦쳧쳨쳩쳪쳫쳬쳭",
            "쳮쳯쳰쳱쳲쳳쳴쳵쳶쳷쳸쳹쳺쳻쳼쳽쳾쳿춀춁춂춃춄춅춆춇춈춉춊춋춌춍춎춏춐춑춒춓추축춖춗춘춙춚춛출춝춞춟춠춡춢춣춤춥춦춧춨충춪춫춬춭",
            "춮춯춰춱춲춳춴춵춶춷춸춹춺춻춼춽춾춿췀췁췂췃췄췅췆췇췈췉췊췋췌췍췎췏췐췑췒췓췔췕췖췗췘췙췚췛췜췝췞췟췠췡췢췣췤췥췦췧취췩췪췫췬췭",
            "췮췯췰췱췲췳췴췵췶췷췸췹췺췻췼췽췾췿캀캁캂캃캄캅캆캇캈캉캊캋캌캍캎캏캐캑캒캓캔캕캖캗캘캙캚캛캜캝캞캟캠캡캢캣캤캥캦캧캨캩캪캫캬캭",
            "캮캯캰캱캲캳캴캵캶캷캸캹캺캻캼캽캾캿컀컁컂컃컄컅컆컇컈컉컊컋컌컍컎컏컐컑컒컓컔컕컖컗컘컙컚컛컜컝컞컟컠컡컢컣커컥컦컧컨컩컪컫컬컭",
            "컮컯컰컱컲컳컴컵컶컷컸컹컺컻컼컽컾컿쾀쾁쾂쾃쾄쾅쾆쾇쾈쾉쾊쾋쾌쾍쾎쾏쾐쾑쾒쾓쾔쾕쾖쾗쾘쾙쾚쾛쾜쾝쾞쾟쾠쾡쾢쾣쾤쾥쾦쾧쾨쾩쾪쾫쾬쾭",
            "쾮쾯쾰쾱쾲쾳쾴쾵쾶쾷쾸쾹쾺쾻쾼쾽쾾쾿쿀쿁쿂쿃쿄쿅쿆쿇쿈쿉쿊쿋쿌쿍쿎쿏쿐쿑쿒쿓쿔쿕쿖쿗쿘쿙쿚쿛쿜쿝쿞쿟쿠쿡쿢쿣쿤쿥쿦쿧쿨쿩쿪쿫쿬쿭",
            "쿮쿯쿰쿱쿲쿳쿴쿵쿶쿷쿸쿹쿺쿻쿼쿽쿾쿿킀킁킂킃킄킅킆킇킈킉킊킋킌킍킎킏킐킑킒킓킔킕킖킗킘킙킚킛킜킝킞킟킠킡킢킣키킥킦킧킨킩킪킫킬킭",
            "킮킯킰킱킲킳킴킵킶킷킸킹킺킻킼킽킾킿타탁탂탃탄탅탆탇탈탉탊탋탌탍탎탏탐탑탒탓탔탕탖탗탘탙탚탛태택탞탟탠탡탢탣탤탥탦탧탨탩탪탫탬탭",
            "탮탯탰탱탲탳탴탵탶탷탸탹탺탻탼탽탾탿톀톁톂톃톄톅톆톇톈톉톊톋톌톍톎톏톐톑톒톓톔톕톖톗톘톙톚톛톜톝톞톟토톡톢톣톤톥톦톧톨톩톪톫톬톭",
            "톮톯톰톱톲톳톴통톶톷톸톹톺톻톼톽톾톿퇀퇁퇂퇃퇄퇅퇆퇇퇈퇉퇊퇋퇌퇍퇎퇏퇐퇑퇒퇓퇔퇕퇖퇗퇘퇙퇚퇛퇜퇝퇞퇟퇠퇡퇢퇣퇤퇥퇦퇧퇨퇩퇪퇫퇬퇭",
            "퇮퇯퇰퇱퇲퇳퇴퇵퇶퇷퇸퇹퇺퇻퇼퇽퇾퇿튀튁튂튃튄튅튆튇튈튉튊튋튌튍튎튏튐튑튒튓튔튕튖튗튘튙튚튛튜튝튞튟튠튡튢튣튤튥튦튧튨튩튪튫튬튭",
            "튮튯튰튱튲튳튴튵튶튷트특튺튻튼튽튾튿틀틁틂틃틄틅틆틇틈틉틊틋틌틍틎틏틐틑틒틓틔틕틖틗틘틙틚틛틜틝틞틟틠틡틢틣틤틥틦틧틨틩틪틫틬틭",
            "틮틯티틱틲틳틴틵틶틷틸틹틺틻틼틽틾틿펀펁펂펃펄펅펆펇펈펉펊펋펌펍펎펏펐펑펒펓펔펕펖펗페펙펚펛펜펝펞펟펠펡펢펣펤펥펦펧펨펩펪펫펬펭",
            "펮펯펰펱펲펳펴펵펶펷편펹펺펻펼펽펾펿폀폁폂폃폄폅폆폇폈평폊폋폌폍폎폏폐폑폒폓폔폕폖폗폘폙폚폛폜폝폞폟폠폡폢폣폤폥폦폧폨폩폪폫포폭",
            "폮폯폰폱폲폳폴폵폶폷폸폹폺폻폼폽폾폿풀풁풂풃풄풅풆풇품풉풊풋풌풍풎풏풐풑풒풓풔풕풖풗풘풙풚풛풜풝풞풟풠풡풢풣풤풥풦풧풨풩풪풫풬풭",
            "풮풯풰풱풲풳풴풵풶풷풸풹풺풻풼풽풾풿퓀퓁퓂퓃퓄퓅퓆퓇퓈퓉퓊퓋퓌퓍퓎퓏퓐퓑퓒퓓퓔퓕퓖퓗퓘퓙퓚퓛퓜퓝퓞퓟퓠퓡퓢퓣퓤퓥퓦퓧퓨퓩퓪퓫퓬퓭",
            "퓮퓯퓰퓱퓲퓳퓴퓵퓶퓷퓸퓹퓺퓻퓼퓽퓾퓿햀햁햂햃햄햅햆햇했행햊햋햌햍햎햏햐햑햒햓햔햕햖햗햘햙햚햛햜햝햞햟햠햡햢햣햤향햦햧햨햩햪햫햬햭",
            "햮햯햰햱햲햳햴햵햶햷햸햹햺햻햼햽햾햿헀헁헂헃헄헅헆헇허헉헊헋헌헍헎헏헐헑헒헓헔헕헖헗험헙헚헛헜헝헞헟헠헡헢헣헤헥헦헧헨헩헪헫헬헭",
            "헮헯헰헱헲헳헴헵헶헷헸헹헺헻헼헽헾헿횀횁횂횃횄횅횆횇횈횉횊횋회획횎횏횐횑횒횓횔횕횖횗횘횙횚횛횜횝횞횟횠횡횢횣횤횥횦횧효횩횪횫횬횭",
            "횮횯횰횱횲횳횴횵횶횷횸횹횺횻횼횽횾횿훀훁훂훃후훅훆훇훈훉훊훋훌훍훎훏훐훑훒훓훔훕훖훗훘훙훚훛훜훝훞훟훠훡훢훣훤훥훦훧훨훩훪훫훬훭",
            "훮훯훰훱훲훳훴훵훶훷훸훹훺훻훼훽훾훿힀힁힂힃힄힅힆힇히힉힊힋힌힍힎힏힐힑힒힓힔힕힖힗힘힙힚힛힜힝힞힟힠힡힢힣ힰힱힲힳힴힵힶힷힸힹ",
            "ힺힻힼힽힾힿퟀퟁퟂퟃퟄퟅퟆퟋퟌퟍퟎퟏퟐퟑퟒퟓퟔퟕퟖퟗퟘퟙퟚퟛퟜퟝퟞퟟퟠퟡퟢퟣퟤퟥퟦퟧퟨퟩퟪퟫퟬퟭퟮퟯퟰퟱퟲퟳퟴퟵퟶퟷퟸퟹퟺퟻ呂女",
            "廬旅濾礪閭驪麗黎力曆歷轢年憐戀撚漣煉璉秊練聯輦蓮連鍊列劣咽烈裂說廉念捻殮簾獵令囹寧嶺怜玲瑩羚聆鈴零靈領例禮醴隸惡了僚寮尿料樂燎療",
            "蓼遼龍暈阮劉杻柳流溜琉留硫紐類六戮陸倫崙淪輪律慄栗率隆利吏履易李梨泥理痢罹裏裡里離匿溺吝燐璘藺隣鱗麟林淋臨立笠粒狀炙識什茶刺婢嬨",
            "廒廙彩徭惘慎愈憎慠懲戴揄搜摒敖晴朗望杖歹殺流滛滋漢瀞煮瞧爵犯猪瑱甆画瘝瘟益盛直睊着磌窱節类絛練缾者荒華蝹襁覆視調諸請謁諾諭謹變贈",
            "輸遲醙鉶陼難靖韛響頋頻鬒龜𢡊𢡄𣏕㮝䀘䀹𥉉𥳐𧻓齃龎ﮀﮁﮂﮃﮄﮅﮆﮇﮈﮉﮊﮋﮌﮍﮎﮏﮐﮑﮒﮓﮔﮕﮖﮗﮘﮙﮚﮛﮜﮝﮞﮟﮠﮡﮢﮣﮤﮥﮦﮧ",
            "ﮨﮩﮪﮫﮬﮭﮮﮯﮰﮱﯓﯔﯕﯖﯗﯘﯙﯚﯛﯜﯝﯞﯟﯠﯡﯢﯣﯤﯥﯦﯧﯨﯩﯪﯫﯬﯭﯮﯯﯰﯱﯲﯳﯴﯵﯶﯷﯸﯹﯺﯻﯼﯽﯾﯿﲀﲁﲂﲃﲄﲅﲆﲇﲈ",
            "ﲉﲊﲋﲌﲍﲎﲏﲐﲑﲒﲓﲔﲕﲖﲗﲘﲙﲚﲛﲜﲝﲞﲟﲠﲡﲢﲣﲤﲥﲦﲧﲨﲩﲪﲫﲬﲭﲮﲯﲰﲱﲲﲳﲴﲵﲶﲷﲸﲹﲺﲻﲼﲽﲾﲿﳀﳁﳂﳃﳄﳅﳆﳇﳈ",
            "ﳉﳊﳋﳌﳍﳎﳏﳐﳑﳒﳓﳔﳕﳖﳗﳘﳙﳚﳛﳜﳝﳞﳟﳠﳡﳢﳣﳤﳥﳦﳧﳨﳩﳪﳫﳬﳭﳮﳯﳰﳱﳲﳳﳴﳵﳶﳷﳸﳹﳺﳻﳼﳽﳾﳿﶀﶁﶂﶃﶄﶅﶆﶇﶈ",
            "ﶉﶊﶋﶌﶍﶎﶏﶒﶓﶔﶕﶖﶗﶘﶙﶚﶛﶜﶝﶞﶟﶠﶡﶢﶣﶤﶥﶦﶧﶨﶩﶪﶫﶬﶭﶮﶯﶰﶱﶲﶳﶴﶵﶶﶷﶸﶹﶺﶻﶼﶽﶾﶿﷀﷁﷂﷃﷄﷅﷆﷇﷰﷱﷲ",
            "ﷳﷴﷵﷶﷷﷸﷹﷺﷻﺀﺁﺂﺃﺄﺅﺆﺇﺈﺉﺊﺋﺌﺍﺎﺏﺐﺑﺒﺓﺔﺕﺖﺗﺘﺙﺚﺛﺜﺝﺞﺟﺠﺡﺢﺣﺤﺥﺦﺧﺨﺩﺪﺫﺬﺭﺮﺯﺰﺱﺲﺳﺴﺵﺶ",
            "ﺷﺸﺹﺺﺻﺼﺽﺾﺿﻀﻁﻂﻃﻄﻅﻆﻇﻈﻉﻊﻋﻌﻍﻎﻏﻐﻑﻒﻓﻔﻕﻖﻗﻘﻙﻚﻛﻜﻝﻞﻟﻠﻡﻢﻣﻤﻥﻦﻧﻨﻩﻪﻫﻬﻭﻮﻯﻰﻱﻲﻳﻴﻵﻶ",
            "ﻷﻸﻹﻺﻻﻼﾀﾁﾂﾃﾄﾅﾆﾇﾈﾉﾊﾋﾌﾍﾎﾏﾐﾑﾒﾓﾔﾕﾖﾗﾘﾙﾚﾛﾜﾝﾞﾟﾠﾡﾢﾣﾤﾥﾦﾧﾨﾩﾪﾫﾬﾭﾮﾯﾰﾱﾲﾳﾴﾵﾶﾷﾸﾹ",
            "ﾺﾻﾼﾽﾾￂￃￄￅￆￇￊￋￌￍￎￏￒￓￔￕￖￗￚￛￜ">>
        astral ==
          <<"𰂀𰂁𰂂𰂃𰂄𰂅𰂆𰂇𰂈𰂉𰂊𰂋𰂌𰂍𰂎𰂏𰂐𰂑𰂒𰂓𰂔𰂕𰂖𰂗𰂘𰂙𰂚𰂛𰂜𰂝𰂞𰂟",
            "𰂠𰂡𰂢𰂣𰂤𰂥𰂦𰂧𰂨𰂩𰂪𰂫𰂬𰂭𰂮𰂯𰂰𰂱𰂲𰂳𰂴𰂵𰂶𰂷𰂸𰂹𰂺𰂻𰂼𰂽𰂾𰂿",
            "𰃀𰃁𰃂𰃃𰃄𰃅𰃆𰃇𰃈𰃉𰃊𰃋𰃌𰃍𰃎𰃏𰃐𰃑𰃒𰃓𰃔𰃕𰃖𰃗𰃘𰃙𰃚𰃛𰃜𰃝𰃞𰃟",
            "𰃠𰃡𰃢𰃣𰃤𰃥𰃦𰃧𰃨𰃩𰃪𰃫𰃬𰃭𰃮𰃯𰃰𰃱𰃲𰃳𰃴𰃵𰃶𰃷𰃸𰃹𰃺𰃻𰃼𰃽𰃾𰃿",
            "𰆀𰆁𰆂𰆃𰆄𰆅𰆆𰆇𰆈𰆉𰆊𰆋𰆌𰆍𰆎𰆏𰆐𰆑𰆒𰆓𰆔𰆕𰆖𰆗𰆘𰆙𰆚𰆛𰆜𰆝𰆞𰆟",
            "𰆠𰆡𰆢𰆣𰆤𰆥𰆦𰆧𰆨𰆩𰆪𰆫𰆬𰆭𰆮𰆯𰆰𰆱𰆲𰆳𰆴𰆵𰆶𰆷𰆸𰆹𰆺𰆻𰆼𰆽𰆾𰆿",
            "𰇀𰇁𰇂𰇃𰇄𰇅𰇆𰇇𰇈𰇉𰇊𰇋𰇌𰇍𰇎𰇏𰇐𰇑𰇒𰇓𰇔𰇕𰇖𰇗𰇘𰇙𰇚𰇛𰇜𰇝𰇞𰇟",
            "𰇠𰇡𰇢𰇣𰇤𰇥𰇦𰇧𰇨𰇩𰇪𰇫𰇬𰇭𰇮𰇯𰇰𰇱𰇲𰇳𰇴𰇵𰇶𰇷𰇸𰇹𰇺𰇻𰇼𰇽𰇾𰇿",
            "𰊀𰊁𰊂𰊃𰊄𰊅𰊆𰊇𰊈𰊉𰊊𰊋𰊌𰊍𰊎𰊏𰊐𰊑𰊒𰊓𰊔𰊕𰊖𰊗𰊘𰊙𰊚𰊛𰊜𰊝𰊞𰊟",
            "𰊠𰊡𰊢𰊣𰊤𰊥𰊦𰊧𰊨𰊩𰊪𰊫𰊬𰊭𰊮𰊯𰊰𰊱𰊲𰊳𰊴𰊵𰊶𰊷𰊸𰊹𰊺𰊻𰊼𰊽𰊾𰊿",
            "𰋀𰋁𰋂𰋃𰋄𰋅𰋆𰋇𰋈𰋉𰋊𰋋𰋌𰋍𰋎𰋏𰋐𰋑𰋒𰋓𰋔𰋕𰋖𰋗𰋘𰋙𰋚𰋛𰋜𰋝𰋞𰋟",
            "𰋠𰋡𰋢𰋣𰋤𰋥𰋦𰋧𰋨𰋩𰋪𰋫𰋬𰋭𰋮𰋯𰋰𰋱𰋲𰋳𰋴𰋵𰋶𰋷𰋸𰋹𰋺𰋻𰋼𰋽𰋾𰋿",
            "𰎀𰎁𰎂𰎃𰎄𰎅𰎆𰎇𰎈𰎉𰎊𰎋𰎌𰎍𰎎𰎏𰎐𰎑𰎒𰎓𰎔𰎕𰎖𰎗𰎘𰎙𰎚𰎛𰎜𰎝𰎞𰎟",
            "𰎠𰎡𰎢𰎣𰎤𰎥𰎦𰎧𰎨𰎩𰎪𰎫𰎬𰎭𰎮𰎯𰎰𰎱𰎲𰎳𰎴𰎵𰎶𰎷𰎸𰎹𰎺𰎻𰎼𰎽𰎾𰎿",
            "𰏀𰏁𰏂𰏃𰏄𰏅𰏆𰏇𰏈𰏉𰏊𰏋𰏌𰏍𰏎𰏏𰏐𰏑𰏒𰏓𰏔𰏕𰏖𰏗𰏘𰏙𰏚𰏛𰏜𰏝𰏞𰏟",
            "𰏠𰏡𰏢𰏣𰏤𰏥𰏦𰏧𰏨𰏩𰏪𰏫𰏬𰏭𰏮𰏯𰏰𰏱𰏲𰏳𰏴𰏵𰏶𰏷𰏸𰏹𰏺𰏻𰏼𰏽𰏾𰏿",
            "𰒀𰒁𰒂𰒃𰒄𰒅𰒆𰒇𰒈𰒉𰒊𰒋𰒌𰒍𰒎𰒏𰒐𰒑𰒒𰒓𰒔𰒕𰒖𰒗𰒘𰒙𰒚𰒛𰒜𰒝𰒞𰒟",
            "𰒠𰒡𰒢𰒣𰒤𰒥𰒦𰒧𰒨𰒩𰒪𰒫𰒬𰒭𰒮𰒯𰒰𰒱𰒲𰒳𰒴𰒵𰒶𰒷𰒸𰒹𰒺𰒻𰒼𰒽𰒾𰒿",
            "𰓀𰓁𰓂𰓃𰓄𰓅𰓆𰓇𰓈𰓉𰓊𰓋𰓌𰓍𰓎𰓏𰓐𰓑𰓒𰓓𰓔𰓕𰓖𰓗𰓘𰓙𰓚𰓛𰓜𰓝𰓞𰓟",
            "𰓠𰓡𰓢𰓣𰓤𰓥𰓦𰓧𰓨𰓩𰓪𰓫𰓬𰓭𰓮𰓯𰓰𰓱𰓲𰓳𰓴𰓵𰓶𰓷𰓸𰓹𰓺𰓻𰓼𰓽𰓾𰓿",
            "𰖀𰖁𰖂𰖃𰖄𰖅𰖆𰖇𰖈𰖉𰖊𰖋𰖌𰖍𰖎𰖏𰖐𰖑𰖒𰖓𰖔𰖕𰖖𰖗𰖘𰖙𰖚𰖛𰖜𰖝𰖞𰖟",
            "𰖠𰖡𰖢𰖣𰖤𰖥𰖦𰖧𰖨𰖩𰖪𰖫𰖬𰖭𰖮𰖯𰖰𰖱𰖲𰖳𰖴𰖵𰖶𰖷𰖸𰖹𰖺𰖻𰖼𰖽𰖾𰖿",
            "𰗀𰗁𰗂𰗃𰗄𰗅𰗆𰗇𰗈𰗉𰗊𰗋𰗌𰗍𰗎𰗏𰗐𰗑𰗒𰗓𰗔𰗕𰗖𰗗𰗘𰗙𰗚𰗛𰗜𰗝𰗞𰗟",
            "𰗠𰗡𰗢𰗣𰗤𰗥𰗦𰗧𰗨𰗩𰗪𰗫𰗬𰗭𰗮𰗯𰗰𰗱𰗲𰗳𰗴𰗵𰗶𰗷𰗸𰗹𰗺𰗻𰗼𰗽𰗾𰗿",
            "𰚀𰚁𰚂𰚃𰚄𰚅𰚆𰚇𰚈𰚉𰚊𰚋𰚌𰚍𰚎𰚏𰚐𰚑𰚒𰚓𰚔𰚕𰚖𰚗𰚘𰚙𰚚𰚛𰚜𰚝𰚞𰚟",
            "𰚠𰚡𰚢𰚣𰚤𰚥𰚦𰚧𰚨𰚩𰚪𰚫𰚬𰚭𰚮𰚯𰚰𰚱𰚲𰚳𰚴𰚵𰚶𰚷𰚸𰚹𰚺𰚻𰚼𰚽𰚾𰚿",
            "𰛀𰛁𰛂𰛃𰛄𰛅𰛆𰛇𰛈𰛉𰛊𰛋𰛌𰛍𰛎𰛏𰛐𰛑𰛒𰛓𰛔𰛕𰛖𰛗𰛘𰛙𰛚𰛛𰛜𰛝𰛞𰛟",
            "𰛠𰛡𰛢𰛣𰛤𰛥𰛦𰛧𰛨𰛩𰛪𰛫𰛬𰛭𰛮𰛯𰛰𰛱𰛲𰛳𰛴𰛵𰛶𰛷𰛸𰛹𰛺𰛻𰛼𰛽𰛾𰛿",
            "𰞀𰞁𰞂𰞃𰞄𰞅𰞆𰞇𰞈𰞉𰞊𰞋𰞌𰞍𰞎𰞏𰞐𰞑𰞒𰞓𰞔𰞕𰞖𰞗𰞘𰞙𰞚𰞛𰞜𰞝𰞞𰞟",
            "𰞠𰞡𰞢𰞣𰞤𰞥𰞦𰞧𰞨𰞩𰞪𰞫𰞬𰞭𰞮𰞯𰞰𰞱𰞲𰞳𰞴𰞵𰞶𰞷𰞸𰞹𰞺𰞻𰞼𰞽𰞾𰞿",
            "𰟀𰟁𰟂𰟃𰟄𰟅𰟆𰟇𰟈𰟉𰟊𰟋𰟌𰟍𰟎𰟏𰟐𰟑𰟒𰟓𰟔𰟕𰟖𰟗𰟘𰟙𰟚𰟛𰟜𰟝𰟞𰟟",
            "𰟠𰟡𰟢𰟣𰟤𰟥𰟦𰟧𰟨𰟩𰟪𰟫𰟬𰟭𰟮𰟯𰟰𰟱𰟲𰟳𰟴𰟵𰟶𰟷𰟸𰟹𰟺𰟻𰟼𰟽𰟾𰟿",
            "𰢀𰢁𰢂𰢃𰢄𰢅𰢆𰢇𰢈𰢉𰢊𰢋𰢌𰢍𰢎𰢏𰢐𰢑𰢒𰢓𰢔𰢕𰢖𰢗𰢘𰢙𰢚𰢛𰢜𰢝𰢞𰢟",
            "𰢠𰢡𰢢𰢣𰢤𰢥𰢦𰢧𰢨𰢩𰢪𰢫𰢬𰢭𰢮𰢯𰢰𰢱𰢲𰢳𰢴𰢵𰢶𰢷𰢸𰢹𰢺𰢻𰢼𰢽𰢾𰢿",
            "𰣀𰣁𰣂𰣃𰣄𰣅𰣆𰣇𰣈𰣉𰣊𰣋𰣌𰣍𰣎𰣏𰣐𰣑𰣒𰣓𰣔𰣕𰣖𰣗𰣘𰣙𰣚𰣛𰣜𰣝𰣞𰣟",
            "𰣠𰣡𰣢𰣣𰣤𰣥𰣦𰣧𰣨𰣩𰣪𰣫𰣬𰣭𰣮𰣯𰣰𰣱𰣲𰣳𰣴𰣵𰣶𰣷𰣸𰣹𰣺𰣻𰣼𰣽𰣾𰣿",
            "𰦀𰦁𰦂𰦃𰦄𰦅𰦆𰦇𰦈𰦉𰦊𰦋𰦌𰦍𰦎𰦏𰦐𰦑𰦒𰦓𰦔𰦕𰦖𰦗𰦘𰦙𰦚𰦛𰦜𰦝𰦞𰦟",
            "𰦠𰦡𰦢𰦣𰦤𰦥𰦦𰦧𰦨𰦩𰦪𰦫𰦬𰦭𰦮𰦯𰦰𰦱𰦲𰦳𰦴𰦵𰦶𰦷𰦸𰦹𰦺𰦻𰦼𰦽𰦾𰦿",
            "𰧀𰧁𰧂𰧃𰧄𰧅𰧆𰧇𰧈𰧉𰧊𰧋𰧌𰧍𰧎𰧏𰧐𰧑𰧒𰧓𰧔𰧕𰧖𰧗𰧘𰧙𰧚𰧛𰧜𰧝𰧞𰧟",
            "𰧠𰧡𰧢𰧣𰧤𰧥𰧦𰧧𰧨𰧩𰧪𰧫𰧬𰧭𰧮𰧯𰧰𰧱𰧲𰧳𰧴𰧵𰧶𰧷𰧸𰧹𰧺𰧻𰧼𰧽𰧾𰧿",
            "𰪀𰪁𰪂𰪃𰪄𰪅𰪆𰪇𰪈𰪉𰪊𰪋𰪌𰪍𰪎𰪏𰪐𰪑𰪒𰪓𰪔𰪕𰪖𰪗𰪘𰪙𰪚𰪛𰪜𰪝𰪞𰪟",
            "𰪠𰪡𰪢𰪣𰪤𰪥𰪦𰪧𰪨𰪩𰪪𰪫𰪬𰪭𰪮𰪯𰪰𰪱𰪲𰪳𰪴𰪵𰪶𰪷𰪸𰪹𰪺𰪻𰪼𰪽𰪾𰪿",
            "𰫀𰫁𰫂𰫃𰫄𰫅𰫆𰫇𰫈𰫉𰫊𰫋𰫌𰫍𰫎𰫏𰫐𰫑𰫒𰫓𰫔𰫕𰫖𰫗𰫘𰫙𰫚𰫛𰫜𰫝𰫞𰫟",
            "𰫠𰫡𰫢𰫣𰫤𰫥𰫦𰫧𰫨𰫩𰫪𰫫𰫬𰫭𰫮𰫯𰫰𰫱𰫲𰫳𰫴𰫵𰫶𰫷𰫸𰫹𰫺𰫻𰫼𰫽𰫾𰫿",
            "𰮀𰮁𰮂𰮃𰮄𰮅𰮆𰮇𰮈𰮉𰮊𰮋𰮌𰮍𰮎𰮏𰮐𰮑𰮒𰮓𰮔𰮕𰮖𰮗𰮘𰮙𰮚𰮛𰮜𰮝𰮞𰮟",
            "𰮠𰮡𰮢𰮣𰮤𰮥𰮦𰮧𰮨𰮩𰮪𰮫𰮬𰮭𰮮𰮯𰮰𰮱𰮲𰮳𰮴𰮵𰮶𰮷𰮸𰮹𰮺𰮻𰮼𰮽𰮾𰮿",
            "𰯀𰯁𰯂𰯃𰯄𰯅𰯆𰯇𰯈𰯉𰯊𰯋𰯌𰯍𰯎𰯏𰯐𰯑𰯒𰯓𰯔𰯕𰯖𰯗𰯘𰯙𰯚𰯛𰯜𰯝𰯞𰯟",
            "𰯠𰯡𰯢𰯣𰯤𰯥𰯦𰯧𰯨𰯩𰯪𰯫𰯬𰯭𰯮𰯯𰯰𰯱𰯲𰯳𰯴𰯵𰯶𰯷𰯸𰯹𰯺𰯻𰯼𰯽𰯾𰯿",
            "𰲀𰲁𰲂𰲃𰲄𰲅𰲆𰲇𰲈𰲉𰲊𰲋𰲌𰲍𰲎𰲏𰲐𰲑𰲒𰲓𰲔𰲕𰲖𰲗𰲘𰲙𰲚𰲛𰲜𰲝𰲞𰲟",
            "𰲠𰲡𰲢𰲣𰲤𰲥𰲦𰲧𰲨𰲩𰲪𰲫𰲬𰲭𰲮𰲯𰲰𰲱𰲲𰲳𰲴𰲵𰲶𰲷𰲸𰲹𰲺𰲻𰲼𰲽𰲾𰲿",
            "𰳀𰳁𰳂𰳃𰳄𰳅𰳆𰳇𰳈𰳉𰳊𰳋𰳌𰳍𰳎𰳏𰳐𰳑𰳒𰳓𰳔𰳕𰳖𰳗𰳘𰳙𰳚𰳛𰳜𰳝𰳞𰳟",
            "𰳠𰳡𰳢𰳣𰳤𰳥𰳦𰳧𰳨𰳩𰳪𰳫𰳬𰳭𰳮𰳯𰳰𰳱𰳲𰳳𰳴𰳵𰳶𰳷𰳸𰳹𰳺𰳻𰳼𰳽𰳾𰳿",
            "𰶀𰶁𰶂𰶃𰶄𰶅𰶆𰶇𰶈𰶉𰶊𰶋𰶌𰶍𰶎𰶏𰶐𰶑𰶒𰶓𰶔𰶕𰶖𰶗𰶘𰶙𰶚𰶛𰶜𰶝𰶞𰶟",
            "𰶠𰶡𰶢𰶣𰶤𰶥𰶦𰶧𰶨𰶩𰶪𰶫𰶬𰶭𰶮𰶯𰶰𰶱𰶲𰶳𰶴𰶵𰶶𰶷𰶸𰶹𰶺𰶻𰶼𰶽𰶾𰶿",
            "𰷀𰷁𰷂𰷃𰷄𰷅𰷆𰷇𰷈𰷉𰷊𰷋𰷌𰷍𰷎𰷏𰷐𰷑𰷒𰷓𰷔𰷕𰷖𰷗𰷘𰷙𰷚𰷛𰷜𰷝𰷞𰷟",
            "𰷠𰷡𰷢𰷣𰷤𰷥𰷦𰷧𰷨𰷩𰷪𰷫𰷬𰷭𰷮𰷯𰷰𰷱𰷲𰷳𰷴𰷵𰷶𰷷𰷸𰷹𰷺𰷻𰷼𰷽𰷾𰷿",
            "𰺀𰺁𰺂𰺃𰺄𰺅𰺆𰺇𰺈𰺉𰺊𰺋𰺌𰺍𰺎𰺏𰺐𰺑𰺒𰺓𰺔𰺕𰺖𰺗𰺘𰺙𰺚𰺛𰺜𰺝𰺞𰺟",
            "𰺠𰺡𰺢𰺣𰺤𰺥𰺦𰺧𰺨𰺩𰺪𰺫𰺬𰺭𰺮𰺯𰺰𰺱𰺲𰺳𰺴𰺵𰺶𰺷𰺸𰺹𰺺𰺻𰺼𰺽𰺾𰺿",
            "𰻀𰻁𰻂𰻃𰻄𰻅𰻆𰻇𰻈𰻉𰻊𰻋𰻌𰻍𰻎𰻏𰻐𰻑𰻒𰻓𰻔𰻕𰻖𰻗𰻘𰻙𰻚𰻛𰻜𰻝𰻞𰻟",
            "𰻠𰻡𰻢𰻣𰻤𰻥𰻦𰻧𰻨𰻩𰻪𰻫𰻬𰻭𰻮𰻯𰻰𰻱𰻲𰻳𰻴𰻵𰻶𰻷𰻸𰻹𰻺𰻻𰻼𰻽𰻾𰻿",
            "𰾀𰾁𰾂𰾃𰾄𰾅𰾆𰾇𰾈𰾉𰾊𰾋𰾌𰾍𰾎𰾏𰾐𰾑𰾒𰾓𰾔𰾕𰾖𰾗𰾘𰾙𰾚𰾛𰾜𰾝𰾞𰾟",
            "𰾠𰾡𰾢𰾣𰾤𰾥𰾦𰾧𰾨𰾩𰾪𰾫𰾬𰾭𰾮𰾯𰾰𰾱𰾲𰾳𰾴𰾵𰾶𰾷𰾸𰾹𰾺𰾻𰾼𰾽𰾾𰾿",
            "𰿀𰿁𰿂𰿃𰿄𰿅𰿆𰿇𰿈𰿉𰿊𰿋𰿌𰿍𰿎𰿏𰿐𰿑𰿒𰿓𰿔𰿕𰿖𰿗𰿘𰿙𰿚𰿛𰿜𰿝𰿞𰿟",
            "𰿠𰿡𰿢𰿣𰿤𰿥𰿦𰿧𰿨𰿩𰿪𰿫𰿬𰿭𰿮𰿯𰿰𰿱𰿲𰿳𰿴𰿵𰿶𰿷𰿸𰿹𰿺𰿻𰿼𰿽𰿾𰿿",
            "𱂀𱂁𱂂𱂃𱂄𱂅𱂆𱂇𱂈𱂉𱂊𱂋𱂌𱂍𱂎𱂏𱂐𱂑𱂒𱂓𱂔𱂕𱂖𱂗𱂘𱂙𱂚𱂛𱂜𱂝𱂞𱂟",
            "𱂠𱂡𱂢𱂣𱂤𱂥𱂦𱂧𱂨𱂩𱂪𱂫𱂬𱂭𱂮𱂯𱂰𱂱𱂲𱂳𱂴𱂵𱂶𱂷𱂸𱂹𱂺𱂻𱂼𱂽𱂾𱂿",
            "𱃀𱃁𱃂𱃃𱃄𱃅𱃆𱃇𱃈𱃉𱃊𱃋𱃌𱃍𱃎𱃏𱃐𱃑𱃒𱃓𱃔𱃕𱃖𱃗𱃘𱃙𱃚𱃛𱃜𱃝𱃞𱃟",
            "𱃠𱃡𱃢𱃣𱃤𱃥𱃦𱃧𱃨𱃩𱃪𱃫𱃬𱃭𱃮𱃯𱃰𱃱𱃲𱃳𱃴𱃵𱃶𱃷𱃸𱃹𱃺𱃻𱃼𱃽𱃾𱃿",
            "𱆀𱆁𱆂𱆃𱆄𱆅𱆆𱆇𱆈𱆉𱆊𱆋𱆌𱆍𱆎𱆏𱆐𱆑𱆒𱆓𱆔𱆕𱆖𱆗𱆘𱆙𱆚𱆛𱆜𱆝𱆞𱆟",
            "𱆠𱆡𱆢𱆣𱆤𱆥𱆦𱆧𱆨𱆩𱆪𱆫𱆬𱆭𱆮𱆯𱆰𱆱𱆲𱆳𱆴𱆵𱆶𱆷𱆸𱆹𱆺𱆻𱆼𱆽𱆾𱆿",
            "𱇀𱇁𱇂𱇃𱇄𱇅𱇆𱇇𱇈𱇉𱇊𱇋𱇌𱇍𱇎𱇏𱇐𱇑𱇒𱇓𱇔𱇕𱇖𱇗𱇘𱇙𱇚𱇛𱇜𱇝𱇞𱇟",
            "𱇠𱇡𱇢𱇣𱇤𱇥𱇦𱇧𱇨𱇩𱇪𱇫𱇬𱇭𱇮𱇯𱇰𱇱𱇲𱇳𱇴𱇵𱇶𱇷𱇸𱇹𱇺𱇻𱇼𱇽𱇾𱇿",
            "𱊀𱊁𱊂𱊃𱊄𱊅𱊆𱊇𱊈𱊉𱊊𱊋𱊌𱊍𱊎𱊏𱊐𱊑𱊒𱊓𱊔𱊕𱊖𱊗𱊘𱊙𱊚𱊛𱊜𱊝𱊞𱊟",
            "𱊠𱊡𱊢𱊣𱊤𱊥𱊦𱊧𱊨𱊩𱊪𱊫𱊬𱊭𱊮𱊯𱊰𱊱𱊲𱊳𱊴𱊵𱊶𱊷𱊸𱊹𱊺𱊻𱊼𱊽𱊾𱊿",
            "𱋀𱋁𱋂𱋃𱋄𱋅𱋆𱋇𱋈𱋉𱋊𱋋𱋌𱋍𱋎𱋏𱋐𱋑𱋒𱋓𱋔𱋕𱋖𱋗𱋘𱋙𱋚𱋛𱋜𱋝𱋞𱋟",
            "𱋠𱋡𱋢𱋣𱋤𱋥𱋦𱋧𱋨𱋩𱋪𱋫𱋬𱋭𱋮𱋯𱋰𱋱𱋲𱋳𱋴𱋵𱋶𱋷𱋸𱋹𱋺𱋻𱋼𱋽𱋾𱋿">>
        escaped ==
          {"\\u0178", "\\u017f", "\\u0220", "\\u023d", "\\u0243", "\\u0244",
           "\\u0245",
           "\\u0253", "\\u0254", "\\u0256", "\\u0257", "\\u0259", "\\u025b",
           "\\u025c", "\\u0260", "\\u0261", "\\u0263", "\\u0265", "\\u0266",
           "\\u0268", "\\u0269", "\\u026a", "\\u026c", "\\u026f", "\\u0272",
           "\\u0275", "\\u037b", "\\u037c", "\\u037d", "\\u037f", "\\u0412",
           "\\u0414", "\\u041e", "\\u0421", "\\u0422", "\\u042a", "\\u0432",
           "\\u0434", "\\u043e", "\\u0441", "\\u0442", "\\u044a", "\\u0462",
           "\\u0463", "\\u0535", "\\u0550", "\\u0551", "\\u0552", "\\u0553",
           "\\u0554", "\\u0555", "\\u0556", "\\u0565", "\\u1e60", "\\u1e61",
           "\\u1f00", "\\u1f01", "\\u1f02", "\\u1f03", "\\u1f04", "\\u1f05",
           "\\u1f06", "\\u1f07", "\\u1f08", "\\u1f09", "\\u1f0a", "\\u1f0b",
           "\\u1f0c", "\\u1f0d", "\\u1f0e", "\\u1f0f", "\\u1f20", "\\u1f21",
           "\\u1f22", "\\u1f23", "\\u1f24", "\\u1f25", "\\u1f26", "\\u1f27",
           "\\u1f28", "\\u1f29", "\\u1f2a", "\\u1f2b", "\\u1f2c", "\\u1f2d",
           "\\u1f2e", "\\u1f2f", "\\u1f60", "\\u1f61", "\\u1f62", "\\u1f63",
           "\\u1f64", "\\u1f65", "\\u1f66", "\\u1f67", "\\u1f68", "\\u1f69",
           "\\u1f6a", "\\u1f6b", "\\u1f6c", "\\u1f6d", "\\u1f6e", "\\u1f6f",
           "\\u1f70", "\\u1f71", "\\u1f72", "\\u1f73", "\\u1f74", "\\u1f75",
           "\\u1f76", "\\u1f77", "\\u1f78", "\\u1f79", "\\u1f7a", "\\u1f7b",
           "\\u1f7c", "\\u1f7d", "\\u2d00", "\\u2d01", "\\u2d02", "\\u2d03",
           "\\u2d04", "\\u2d05", "\\u2d06", "\\u2d07", "\\u2d08", "\\u2d09",
           "\\u2d0a", "\\u2d0b", "\\u2d0c", "\\u2d0d", "\\u2d0e", "\\u2d0f",
           "\\u2d10", "\\u2d11", "\\u2d12", "\\u2d13", "\\u2d14", "\\u2d15",
           "\\u2d16", "\\u2d17", "\\u2d18", "\\u2d19", "\\u2d1a", "\\u2d1b",
           "\\u2d1c", "\\u2d1d", "\\u2d1e", "\\u2d1f", "\\u2d20", "\\u2d21",
           "\\u2d22", "\\u2d23", "\\u2d24", "\\u2d25", "\\u2d27", "\\u2d2d",
           "\\ua64a", "\\ua64b", "\\uab53", "\\uab70", "\\uab71", "\\uab72",
           "\\uab73", "\\uab74", "\\uab75", "\\uab76", "\\uab77", "\\uab78",
           "\\uab79", "\\uab7a", "\\uab7b", "\\uab7c", "\\uab7d", "\\uab7e",
           "\\uab7f"}
    IN  UNION {{SubSeq(bmp[r], k, k) : k \in 1..Len(bmp[r])} : r \in DOMAIN bmp}
        \cup UNION {{SubSeq(astral[r], 2 * k - 1, 2 * k) : k \in 1..(Len(astral[r]) \div 2)} :
                     r \in DOMAIN astral}
        \cup escaped

IsAlnum(c) == c \in Alnum

\* a character matched by the \w of re
IsWordChar(c) == IsAlnum(c) \/ c = "_"

LowerChar(c) == IF c \in DOMAIN LowerOf THEN LowerOf[c] ELSE c

(***************************************************************************)
(* Strings                                                                 *)
(***************************************************************************)
\* str.lower()
Lower(s) ==
    LET
        Cased ==
          UNION {{SubSeq(r, k, k) : k \in 1..Len(r)} : r \in
            {"ABCDEFGHIJKLMNOPQRSTUVWXYZabcdefghijklmnopqrstuvwxyzªµºÀÁÂÃÄÅÆÇÈ",
             "ÉÊËÌÍÎÏÐÑÒÓÔÕÖØÙÚÛÜÝÞßàáâãäåæçèéêëìíîïðñòóôõöøùúûüýþÿƀƁƂƃƄƅƆƇƈƉƊ",
             "ƋƌƍƎƏƐƑƒƓƔƕƖƗƘƙƚƛƜƝƞƟƠơƢƣƤƥƦƧƨƩƪƫƬƭƮƯưƱƲƳƴƵƶƷƸƹƺƼƽƾƿǄǅǆǇǈǉǊǋǌǍǎǏ",
             "ǐǑǒǓǔǕǖǗǘǙǚǛǜǝǞǟǠǡǢǣǤǥǦǧǨǩǪǫǬǭǮǯǰǱǲǳǴǵǶǷǸǹǺǻǼǽǾǿʀʁʂʃʄʅʆʇʈʉʊʋʌʍʎʏ",
             "ʐʑʒʓʕʖʗʘʙʚʛʜʝʞʟʠʡʢʣʤʥʦʧʨʩʪʫʬʭʮʯΆΈΉΊΌΎΏΐΑΒΓΔΕΖΗΘΙΚΛΜΝΞΟΠΡΣΤΥΦΧΨΩΪ",
             "ΫάέήίΰαβγδεζηθικλμνξοπρςστυφχψωϊϋόύώϏϐϑϒϓϔϕϖϗϘϙϚϛϜϝϞϟϠϡϢϣϤϥϦϧϨϩϪ",
             "ϫϬϭϮϯϰϱϲϳϴϵϷϸϹϺϻϼϽϾϿҀҁҊҋҌҍҎҏҐґҒғҔҕҖҗҘҙҚқҜҝҞҟҠҡҢңҤҥҦҧҨҩҪҫҬҭҮүҰұҲҳ",
             "ҴҵҶҷҸҹҺһҼҽҾҿӀӁӂӃӄӅӆӇӈӉӊӋӌӍӎӏӐӑӒӓӔӕӖӗӘәӚӛӜӝӞӟӠӡӢӣӤӥӦӧӨөӪӫӬӭӮӯӰӱӲӳ",
             "ӴӵӶӷӸӹӺӻӼӽӾӿրցւփքօֆևֈႠႡႢႣႤႥႦႧႨႩႪႫႬႭႮႯႰႱႲႳႴႵႶႷႸႹႺႻႼႽႾႿჀჁჂჃჄჅჇჍაბგ",
             "დევზთიკლმნოპჟრსტუფქღყშჩცძწჭხჯჰჱჲჳჴჵჶჷჸჹჺჽჾჿᎠᎡᎢᎣᎤᎥᎦᎧᎨᎩᎪᎫᎬᎭᎮᎯᎰᎱᎲᎳᎴ",
             "ᎵᎶᎷᎸᎹᎺᎻᎼᎽᎾᎿᏀᏁᏂᏃᏄᏅᏆᏇᏈᏉᏊᏋᏌᏍᏎᏏᏐᏑᏒᏓᏔᏕᏖᏗᏘᏙᏚᏛᏜᏝᏞᏟᏠᏡᏢᏣᏤᏥᏦᏧᏨᏩᏪᏫᏬᏭᏮᏯᏰᏱᏲᏳᏴ",
             "ᏵᏸᏹᏺᏻᏼᏽᲀᲁᲂᲃᲄᲅᲆᲇᲈᲐᲑᲒᲓᲔᲕᲖᲗᲘᲙᲚᲛᲜᲝᲞᲟᲠᲡᲢᲣᲤᲥᲦᲧᲨᲩᲪᲫᲬᲭᲮᲯᲰᲱᲲᲳᲴᲵᲶᲷᲸᲹᲺᲽᲾᲿᶀᶁ",
             "ᶂᶃᶄᶅᶆᶇᶈᶉᶊᶋᶌᶍᶎᶏᶐᶑᶒᶓᶔᶕᶖᶗᶘᶙᶚẀẁẂẃẄẅẆẇẈẉẊẋẌẍẎẏẐẑẒẓẔẕẖẗẘẙẚẛẜẝẞẟẠạẢảẤấẦ",
             "ầẨẩẪẫẬậẮắẰằẲẳẴẵẶặẸẹẺẻẼẽẾếỀềỂểỄễỆệỈỉỊịỌọỎỏỐốỒồỔổỖỗỘộỚớỜờỞởỠỡỢợỤụỦ",
             "ủỨứỪừỬửỮữỰựỲỳỴỵỶỷỸỹỺỻỼỽỾỿᾀᾁᾂᾃᾄᾅᾆᾇᾈᾉᾊᾋᾌᾍᾎᾏᾐᾑᾒᾓᾔᾕᾖᾗᾘᾙᾚᾛᾜᾝᾞᾟᾠᾡᾢᾣᾤᾥᾦ",
             "ᾧᾨᾩᾪᾫᾬᾭᾮᾯᾰᾱᾲᾳᾴᾶᾷᾸᾹᾺΆᾼιῂῃῄῆῇῈΈῊΉῌῐῑῒΐῖῗῘῙῚΊῠῡῢΰῤῥῦῧῨῩῪΎῬῲῳῴῶῷῸΌῺΏ",
             "ῼↃↄⒶⒷⒸⒹⒺⒻⒼⒽⒾⒿⓀⓁⓂⓃⓄⓅⓆⓇⓈⓉⓊⓋⓌⓍⓎⓏⓐⓑⓒⓓⓔⓕⓖⓗⓘⓙⓚⓛⓜⓝⓞⓟⓠⓡⓢⓣⓤⓥⓦⓧⓨⓩⲀⲁⲂⲃⲄⲅⲆⲇⲈ",
             "ⲉⲊⲋⲌⲍⲎⲏⲐⲑⲒⲓⲔⲕⲖⲗⲘⲙⲚⲛⲜⲝⲞⲟⲠⲡⲢⲣⲤⲥⲦⲧⲨⲩⲪⲫⲬⲭⲮⲯⲰⲱⲲⲳⲴⲵⲶⲷⲸⲹⲺⲻⲼⲽⲾⲿⳀⳁⳂⳃⳄⳅⳆⳇⳈ",
             "ⳉⳊⳋⳌⳍⳎⳏⳐⳑⳒⳓⳔⳕⳖⳗⳘⳙⳚⳛⳜⳝⳞⳟⳠⳡⳢⳣⳤⳫⳬⳭⳮⳲⳳꚀꚁꚂꚃꚄꚅꚆꚇꚈꚉꚊꚋꚌꚍꚎꚏꚐꚑꚒꚓꚔꚕꚖꚗꚘꚙꚚꚛꞀꞁ",
             "ꞂꞃꞄꞅꞆꞇꞋꞌꞍꞎꞐꞑꞒꞓꞔꞕꞖꞗꞘꞙꞚꞛꞜꞝꞞꞟꞠꞡꞢꞣꞤꞥꞦꞧꞨꞩꞪꞫꞬꞭꞮꞯꞰꞱꞲꞳꞴꞵꞶꞷꞸꞹꞺꞻꞼꞽꞾꞿꟀꟁꟂꟃꟄꟅ",
             "ꟆꟇꟈꟉꟊꟐꟑꟓꟕꟖꟗꟘꟙꟵꟶꟺꮀꮁꮂꮃꮄꮅꮆꮇꮈꮉꮊꮋꮌꮍꮎꮏꮐꮑꮒꮓꮔꮕꮖꮗꮘꮙꮚꮛꮜꮝꮞꮟꮠꮡꮢꮣꮤꮥꮦꮧꮨꮩꮪꮫꮬꮭꮮꮯ",
             "ꮰꮱꮲꮳꮴꮵꮶꮷꮸꮹꮺꮻꮼꮽꮾꮿ"}}
          \cup {"\\u0178", "\\u017f", "\\u0220", "\\u023d", "\\u0243", "\\u0244",
                "\\u0245", "\\u0253", "\\u0254", "\\u0256", "\\u0257",
                "\\u0259", "\\u025b", "\\u025c", "\\u0260", "\\u0261",
                "\\u0263", "\\u0265", "\\u0266", "\\u0268", "\\u0269",
                "\\u026a", "\\u026c", "\\u026f", "\\u0272", "\\u0275",
                "\\u037b", "\\u037c", "\\u037d", "\\u037f", "\\u0412",
                "\\u0414", "\\u041e", "\\u0421", "\\u0422", "\\u042a",
                "\\u0432", "\\u0434", "\\u043e", "\\u0441", "\\u0442",
                "\\u044a", "\\u0462", "\\u0463", "\\u0535", "\\u0550",
                "\\u0551", "\\u0552", "\\u0553", "\\u0554", "\\u0555",
                "\\u0556", "\\u0565", "\\u1e60", "\\u1e61", "\\u1f00",
                "\\u1f01", "\\u1f02", "\\u1f03", "\\u1f04", "\\u1f05",
                "\\u1f06", "\\u1f07", "\\u1f08", "\\u1f09", "\\u1f0a",
                "\\u1f0b", "\\u1f0c", "\\u1f0d", "\\u1f0e", "\\u1f0f",
                "\\u1f20", "\\u1f21", "\\u1f22", "\\u1f23", "\\u1f24",
                "\\u1f25", "\\u1f26", "\\u1f27", "\\u1f28", "\\u1f29",
                "\\u1f2a", "\\u1f2b", "\\u1f2c", "\\u1f2d", "\\u1f2e",
                "\\u1f2f", "\\u1f60", "\\u1f61", "\\u1f62", "\\u1f63",
                "\\u1f64", "\\u1f65", "\\u1f66", "\\u1f67", "\\u1f68",
                "\\u1f69", "\\u1f6a", "\\u1f6b", "\\u1f6c", "\\u1f6d",
                "\\u1f6e", "\\u1f6f", "\\u1f70", "\\u1f71", "\\u1f72",
                "\\u1f73", "\\u1f74", "\\u1f75", "\\u1f76", "\\u1f77",
                "\\u1f78", "\\u1f79", "\\u1f7a", "\\u1f7b", "\\u1f7c",
                "\\u1f7d", "\\u2d00", "\\u2d01", "\\u2d02", "\\u2d03",
                "\\u2d04", "\\u2d05", "\\u2d06", "\\u2d07", "\\u2d08",
                "\\u2d09", "\\u2d0a", "\\u2d0b", "\\u2d0c", "\\u2d0d",
                "\\u2d0e", "\\u2d0f", "\\u2d10", "\\u2d11", "\\u2d12",
                "\\u2d13", "\\u2d14", "\\u2d15", "\\u2d16", "\\u2d17",
                "\\u2d18", "\\u2d19", "\\u2d1a", "\\u2d1b", "\\u2d1c",
                "\\u2d1d", "\\u2d1e", "\\u2d1f", "\\u2d20", "\\u2d21",
                "\\u2d22", "\\u2d23", "\\u2d24", "\\u2d25", "\\u2d27",
                "\\u2d2d", "\\ua64a", "\\ua64b", "\\uab53", "\\uab70",
                "\\uab71", "\\uab72", "\\uab73", "\\uab74", "\\uab75",
                "\\uab76", "\\uab77", "\\uab78", "\\uab79", "\\uab7a",
                "\\uab7b", "\\uab7c", "\\uab7d", "\\uab7e", "\\uab7f"}
        CaseIgnorable ==
          UNION {{SubSeq(r, k, k) : k \in 1..Len(r)} : r \in
            {"'.:^¨­¯´·¸ʰʱʲʳʴʵʶʷʸʹʺʻʼʽʾʿˀˁ˂˃˄˅ˆˇˈˉˊˋˌˍˎˏːˑ˒˓˔˕˖˗˘˙˚˛˜˝˞˟ˠˡˢˣˤ˥",
             "˦˧˨˩˪˫ˬ˭ˮ˯˰˱˲˳˴˵˶˷˸˹˺˻˼˽˾˿΄΅·҃҄҅҆҇҈҉֑֖֛֢֣֤֥֦֧֪֚֒֓֔֕֗֘֙֜֝֞֟֠֡֨֩֫֬",
             "ְֱֲֳִֵֶַָׇֹֺֻּֽֿׁׂׅ֭֮֯ׄ״ۖۗۘۙۚۛۜ۝ۣ۟۠ۡۢۤۥۦ۪ۭۧۨ۫۬ަާިީުޫެޭޮޯް߫߬߭߮߯߰߱",
             "߲߳ߴߵߺ߽࢈࢐࢑࢙࢚࢛࢘࢜࢝࢞࢟ࣉ࣏࣐࣑࣒࣓࣊࣋࣌࣍࣎ࣔࣕࣖࣗࣘࣙࣚࣛࣜࣝࣞࣟ࣠࣡࣢ࣰࣱࣲࣣࣦࣩ࣭࣮࣯ࣶࣤࣥࣧࣨ࣪࣫࣬ࣳࣴࣵࣷ",
             "ࣹࣺࣸࣻࣼࣽࣾࣿঁ়ুূৃৄ্ৢৣ৾ઁં઼ુૂૃૄૅેૈ્ૢૣૺૻૼ૽૾૿ஂீ்ಁ಼ಿೆೌ್ೢೣඁ්ිීුූັິີຶື຺ຸູົຼ",
             "ໆ່້໊໋໌ໍ྄ཱྀྀྂྃ྆྇ྍྎྏྐྑྒྒྷྔྕྖྗྙྚྛྜྜྷྞྟྠྡྡྷྣྤྥྦྦྷྨྩྪྫྫྷྭྮྯྰྱྲླྴྵྶྷྸྐྵྺྻྼ࿆ႂႅ",
             "ႆႍႝჼ឴឵ិីឹឺុូួំ៉៊់៌៍៎៏័៑្៓ៗ៝ᢅᢆᢩᪧ᪵᪶᪷᪸᪹᪺᪽᪰᪱᪲᪳᪴᪻᪼᪾ᪿᫀ᫃᫄᫊᫁᫂᫅᫆᫇᫈᫉᫋ᫌᫍᫎᮀᮁ",
             "ᮢᮣᮤᮥᮨᮩ᮫ᮬᮭ᯦ᯨᯩᯭᯯᯰᯱ᳔᳢᳣᳤᳥᳦᳧᳨᳕᳖᳗᳘᳙᳜᳝᳞᳟᳭᳐᳑᳒᳚᳛᳠᳴᳸᳹ᶛᶜᶝᶞᶟᶠᶡᶢᶣᶤᶥᶦᶧᶨᶩᶪᶫᶬᶭᶮᶯ",
             "ᶰᶱᶲᶳᶴᶵᶶᶷᶸᶹᶺᶻᶼᶽᶾᶿ᷐᷎᷂᷊᷏᷀᷁᷃᷄᷅᷆᷇᷈᷉᷋᷌᷑᷒ᷓᷔᷕᷖᷗᷘᷙᷚᷛᷜᷝᷞᷟᷠᷡᷢᷣᷤᷥᷦᷧᷨᷩᷪᷫᷬᷭᷮᷯ᷍",
             "᷺᷹᷽᷿᷷᷸ᷰᷱᷲᷳᷴ᷵᷻᷾᷶᷼᾽᾿῀῁῍῎῏῝῞῟῭΅`´῾ₐₑₒₓₔₕₖₗₘₙₚₛₜ⃒⃓⃘⃙⃚⃐⃑⃔⃕⃖⃗⃛⃜⃝⃞⃟⃠⃡⃢⃣",
             "⃤⃥⃦⃪⃫゙゚⃨⃬⃭⃮⃯⃧⃩⃰⳯⳰⳱ⷠⷡⷢⷣⷤⷥⷦⷧⷨⷩⷪⷫⷬⷭⷮⷯⷰⷱⷲⷳⷴⷵⷶⷷⷸⷹⷺⷻⷼⷽⷾⷿ゛゜ゝゞーヽヾꓸꓹꓺꓻꓼꓽꚜ",
             "ꚝꚞꚟ꛰꛱ꞈ꞉꞊ꟲꟳꟴꟸꟹ꣄ꣅ꣠꣡꣢꣣꣤꣥꣦꣧꣨꣩꣪꣫꣬꣭꣮꣯꣰꣱ꣿꦀꦁꦂ꦳ꦶꦷꦸꦹꦼꦽꧏꧥꧦꪴꪰꪲꪳꪷꪸꪾ꪿꫁ꫝꫬꫭꫳꫴ꫶ꯥꯨ",
             "꯭﮲﮳﮴﮵﮶﮷﮸﮹﮺﮻﮼﮽﮾﮿﯀﯁﯂﻿ﾞﾟ￣￹￺￻"}}
          \cup {"\\u0300", "\\u0301", "\\u0308", "\\u030a", "\\u030c",
                "\\u0313", "\\u0331", "\\u0342"}
        \* the nearest character before and after position k that is not
        \* case-ignorable (0 and Len(s) + 1 if there is none)
        Before(k) == IF \E j \in 1..(k - 1) : s[j] \notin CaseIgnorable
                     THEN CHOOSE j \in 1..(k - 1) : /\ s[j] \notin CaseIgnorable
                                                    /\ \A n \in (j + 1)..(k - 1) : s[n] \in CaseIgnorable
                     ELSE 0
        After(k) == IF \E j \in (k + 1)..Len(s) : s[j] \notin CaseIgnorable
                    THEN CHOOSE j \in (k + 1)..Len(s) : /\ s[j] \notin CaseIgnorable
                                                        /\ \A n \in (k + 1)..(j - 1) : s[n] \in CaseIgnorable
                    ELSE Len(s) + 1
        \* a capital sigma that ends a word becomes the final sigma
        FinalSigma(k) == /\ Before(k) > 0 /\ s[Before(k)] \in Cased
                         /\ After(k) <= Len(s) => s[After(k)] \notin Cased
    IN  [k \in 1..Len(s) |-> IF s[k] = "Σ" THEN (IF FinalSigma(k) THEN "ς" ELSE "σ")
                             ELSE LowerChar(s[k])]

\* str.startswith(p)
StartsWith(s, p) == Len(s) >= Len(p) /\ SubSeq(s, 1, Len(p)) = p

\* str.endswith(p)
EndsWith(s, p) == Len(s) >= Len(p) /\ SubSeq(s, Len(s) - Len(p) + 1, Len(s)) = p

\* sub in s
Contains(s, sub) ==
    \E k \in 0..(Len(s) - Len(sub)) : SubSeq(s, k + 1, k + Len(sub)) = sub

\* least index >= k of a character that is not whitespace, Len(s)+1 if none
FirstNonSpace(s, k) ==
    IF k > Len(s) THEN k
    ELSE IF \E j \in k..Len(s) : ~IsSpace(s[j])
    THEN CHOOSE j \in k..Len(s) : ~IsSpace(s[j]) /\ \A m \in k..(j - 1) : IsSpace(s[m])
    ELSE Len(s) + 1

\* least index >= k of a whitespace character, Len(s)+1 if none
FirstSpace(s, k) ==
    IF k > Len(s) THEN k
    ELSE IF \E j \in k..Len(s) : IsSpace(s[j])
    THEN CHOOSE j \in k..Len(s) : IsSpace(s[j]) /\ \A m \in k..(j - 1) : ~IsSpace(s[m])
    ELSE Len(s) + 1

\* greatest index <= k of a character that is not whitespace, 0 if none
LastNonSpace(s, k) ==
    IF k < 1 THEN k
    ELSE IF \E d \in 0..(k - 1) : ~IsSpace(s[k - d])
    THEN k - (CHOOSE d \in 0..(k - 1) :
                  ~IsSpace(s[k - d]) /\ \A m \in 0..(d - 1) : IsSpace(s[k - m]))
    ELSE 0

\* str.strip()
Strip(s) ==
    LET a == FirstNonSpace(s, 1)
        b == LastNonSpace(s, Len(s))
    IN  IF a > Len(s) THEN <<>> ELSE SubSeq(s, a, b)

\* str.split(): the maximal runs of non-whitespace characters, in order
RECURSIVE SplitFrom(_, _)
SplitFrom(s, k) ==
    LET a == FirstNonSpace(s, k)
        b == FirstSpace(s, a)
    IN  IF a > Len(s) THEN <<>>
        ELSE <<SubSeq(s, a, b - 1)>> \o SplitFrom(s, b)

Split(s) == SplitFrom(s, 1)

\* least index >= k of a newline, Len(s)+1 if none
FirstNewline(s, k) ==
    IF k > Len(s) THEN k
    ELSE IF \E j \in k..Len(s) : s[j] = "\n"
    THEN CHOOSE j \in k..Len(s) : s[j] = "\n" /\ \A m \in k..(j - 1) : s[m] # "\n"
    ELSE Len(s) + 1

\* str.split('\n'): always at least one line
RECURSIVE SplitLinesFrom(_, _)
SplitLinesFrom(s, k) ==
    LET b == FirstNewline(s, k)
    IN  <<SubSeq(s, k, b - 1)>> \o
        (IF b > Len(s) THEN <<>> ELSE SplitLinesFrom(s, b + 1))

SplitLines(s) == SplitLinesFrom(s, 1)

\* '\n'.join(ls)
RECURSIVE JoinLines(_)
JoinLines(ls) ==
    IF Len(ls) = 0 THEN <<>>
    ELSE IF Len(ls) = 1 THEN ls[1]
    ELSE ls[1] \o <<"\n">> \o JoinLines(Tail(ls))

\* the i-th element (0-based) of a Python list
Line(ls, i) == ls[i + 1]

(***************************************************************************)
(* Numbers: int() and float() of a whitespace-free token                   *)
(***************************************************************************)
\* digits with single underscores between them, as int() and float() accept
DigitsOk(s) ==
    /\ Len(s) >= 1
    /\ IsDigit(s[1])
    /\ IsDigit(s[Len(s)])
    /\ \A k \in 1..Len(s) : IsDigit(s[k]) \/ s[k] = "_"
    /\ \A k \in 1..(Len(s) - 1) : ~(s[k] = "_" /\ s[k + 1] = "_")

\* the number a digit string denotes, reading the first k characters
RECURSIVE DigitsVal(_, _)
DigitsVal(s, k) ==
    IF \A j \in 1..k : s[j] = "_" \/ DigitValue[s[j]] = 0 THEN 0
    ELSE IF s[k] = "_" THEN DigitsVal(s, k - 1)
    ELSE 10 * DigitsVal(s, k - 1) + DigitValue[s[k]]

Unsigned(s) == IF Len(s) >= 1 /\ s[1] \in {"+", "-"} THEN Tail(s) ELSE s

SignOf(s) == IF Len(s) >= 1 /\ s[1] = "-" THEN -1 ELSE 1

\* sys.get_int_max_str_digits(): the most digits int() reads from a string,
\* as the interpreter sets it when nothing configures it
IntMaxStrDigits == 4300

\* int(s) raises ValueError for a string of more digits than that; leading
\* zeros count, the sign and the underscores do not
ExceedsLimit(s) == Len(SelectSeq(s, IsDigit)) > IntMaxStrDigits

\* int(s) does not raise ValueError
IntOk(s) == DigitsOk(Unsigned(s)) /\ ~ExceedsLimit(s)

\* int(s)
IntVal(s) == SignOf(s) * DigitsVal(Unsigned(s), Len(Unsigned(s)))

\* least index >= k of a character in cs, Len(s)+1 if none
FirstOf(s, cs, k) ==
    IF k > Len(s) THEN k
    ELSE IF \E j \in k..Len(s) : s[j] \in cs
    THEN CHOOSE j \in k..Len(s) : s[j] \in cs /\ \A m \in k..(j - 1) : s[m] \notin cs
    ELSE Len(s) + 1

(***************************************************************************)
(* Natural numbers of any size, for float(): the decimal digits, the most  *)
(* significant first, without leading zeros; zero is the empty sequence    *)
(***************************************************************************)
\* b without its leading zeros
BigNorm(b) ==
    LET k == CHOOSE k \in 1..(Len(b) + 1) :
                 /\ k = Len(b) + 1 \/ b[k] # 0
                 /\ \A j \in 1..(k - 1) : b[j] = 0
    IN  SubSeq(b, k, Len(b))

\* x >= y
BigGeq(x, y) ==
    IF Len(x) # Len(y) THEN Len(x) > Len(y)
    ELSE LET k == CHOOSE k \in 1..(Len(x) + 1) :
                      /\ k = Len(x) + 1 \/ x[k] # y[k]
                      /\ \A j \in 1..(k - 1) : x[j] = y[j]
         IN  k = Len(x) + 1 \/ x[k] > y[k]

\* b * 2^k
RECURSIVE BigShift(_, _)
BigShift(b, k) ==
    LET \* 2 * b: the carry into a digit comes from the digit after it alone
        body == [j \in 1..Len(b) |->
                    (2 * b[j] + (IF j < Len(b) /\ b[j + 1] >= 5 THEN 1 ELSE 0)) % 10]
    IN  IF b = <<>> \/ k = 0 THEN b
        ELSE IF k = 1
        THEN (IF b[1] >= 5 THEN <<1>> ELSE <<>>) \o SubSeq(body, 1, Len(b))
        ELSE BigShift(BigShift(b, k \div 2), k - k \div 2)

\* str(n) of the number with the digits b, the empty string for no digit
RECURSIVE DigitsStr(_)
DigitsStr(b) ==
    IF Len(b) = 0 THEN ""
    ELSE IF Len(b) = 1
    THEN <<"0", "1", "2", "3", "4", "5", "6", "7", "8", "9">>[b[1] + 1]
    ELSE LET h == Len(b) \div 2
         IN  DigitsStr(SubSeq(b, 1, h)) \o DigitsStr(SubSeq(b, h + 1, Len(b)))

\* the number whose binary digits are bits, the most significant first
RECURSIVE BigOfBits(_)
BigOfBits(bits) ==
    LET h == Len(bits) \div 2
        \* x + y
        Add(x, y) ==
            LET n == (IF Len(x) > Len(y) THEN Len(x) ELSE Len(y)) + 1
                a == [k \in 1..n |-> IF k <= n - Len(x) THEN 0 ELSE x[k - (n - Len(x))]]
                b == [k \in 1..n |-> IF k <= n - Len(y) THEN 0 ELSE y[k - (n - Len(y))]]
                Carry(k) == \E j \in (k + 1)..n :
                                /\ a[j] + b[j] >= 10
                                /\ \A m \in (k + 1)..(j - 1) : a[m] + b[m] = 9
            IN  BigNorm([k \in 1..n |->
                            (a[k] + b[k] + (IF Carry(k) THEN 1 ELSE 0)) % 10])
    IN  IF Len(bits) = 0 THEN <<>>
        ELSE IF Len(bits) = 1 THEN (IF bits[1] = 1 THEN <<1>> ELSE <<>>)
        ELSE Add(BigShift(BigOfBits(SubSeq(bits, 1, h)), Len(bits) - h),
                 BigOfBits(SubSeq(bits, h + 1, Len(bits))))

\* the greatest f, of the powers of two from k down, with b * 2^f <= a, for
\* a >= b; a step whose power alone is beyond a / b is passed over
RECURSIVE Log2From(_, _, _)
Log2From(a, b, k) ==
    IF k = 0 THEN 0
    ELSE IF 3 * k > 10 * (Len(a) - Len(b) + 1) THEN Log2From(a, b, k \div 2)
    ELSE LET s == BigShift(b, k)
         IN  IF BigGeq(a, s) THEN k + Log2From(a, s, k \div 2)
             ELSE Log2From(a, b, k \div 2)

\* the first p binary digits of n / d, for d <= n < 2 * d, and what is left:
\* rem / (2 * d) is the part of the last digit's unit not yet counted; the
\* digits stop early when nothing is left
RECURSIVE DivBits(_, _, _)
DivBits(n, d, p) ==
    LET \* x - y, for x >= y
        Sub(x, y) ==
            LET b == [k \in 1..Len(x) |->
                         IF k <= Len(x) - Len(y) THEN 0 ELSE y[k - (Len(x) - Len(y))]]
                Borrow(k) == \E j \in (k + 1)..Len(x) :
                                 /\ x[j] < b[j]
                                 /\ \A m \in (k + 1)..(j - 1) : x[m] = b[m]
            IN  BigNorm([k \in 1..Len(x) |->
                            (x[k] - b[k] - (IF Borrow(k) THEN 1 ELSE 0) + 10) % 10])
        a == DivBits(n, d, p \div 2)
        b == DivBits(a.rem, d, p - p \div 2)
    IN  IF p = 0 \/ n = <<>> THEN [bits |-> <<>>, rem |-> n]
        ELSE IF p = 1
        THEN IF BigGeq(n, d) THEN [bits |-> <<1>>, rem |-> BigShift(Sub(n, d), 1)]
             ELSE [bits |-> <<0>>, rem |-> BigShift(n, 1)]
        ELSE [bits |-> a.bits \o b.bits, rem |-> b.rem]

\* A float is kept as the exact ratio float.as_integer_ratio() gives: num and
\* den in lowest terms, den > 0, each written in decimal as str() writes it;
\* inf is 1/0, -inf is -1/0 and nan is 0/0.
\* The double of the given sign with the binary digits bits, the last of them
\* worth 2^x: inf when it reaches 2^1024
DoubleOf(sign, bits, x) ==
    LET \* the index of the last 1 of bits, 0 if there is none
        last == CHOOSE k \in 0..Len(bits) :
                    /\ k = 0 \/ bits[k] = 1
                    /\ \A m \in (k + 1)..Len(bits) : bits[m] = 0
        \* the last 1 is worth 2^y
        y == x + (Len(bits) - last)
        minus == IF sign < 0 THEN "-" ELSE ""
    IN  IF last = 0 THEN [num |-> "0", den |-> "1"]
        ELSE IF last + y > 1024 THEN [num |-> minus \o "1", den |-> "0"]
        ELSE [num |-> minus \o DigitsStr(BigShift(BigOfBits(SubSeq(bits, 1, last)),
                                                  IF y > 0 THEN y ELSE 0)),
              den |-> DigitsStr(BigShift(<<1>>, IF y < 0 THEN -y ELSE 0))]

\* q holds the first p binary digits of a quotient n1 / d1 and what is left,
\* the last of the p digits worth 2^t: one is added to the digits when more
\* than half of 2^t is left, or half of it after an odd digit
RoundHalfEven(sign, q, d1, p, t) ==
    LET bits == q.bits
        odd == p > 0 /\ bits[p] = 1
        more == /\ Len(bits) = p
                /\ BigGeq(q.rem, d1)
                /\ q.rem # d1 \/ odd
        zeros == {k \in 1..p : bits[k] = 0}
        j == CHOOSE k \in zeros : \A m \in zeros : m <= k
    IN  DoubleOf(sign,
                 IF ~more THEN bits
                 ELSE IF zeros = {} THEN <<1>> \o [k \in 1..p |-> 0]
                 ELSE SubSeq(bits, 1, j - 1) \o <<1>> \o [k \in 1..(p - j) |-> 0],
                 t + (p - Len(bits)))

\* the double nearest to n / d, ties to the even mantissa: 53 binary digits,
\* fewer below 2^-1022 and nothing below 2^-1074
RoundToDouble(sign, n, d) ==
    LET up == BigGeq(n, d)
        \* the greatest f with 2^f <= n / d, or with 2^f <= d / n
        f == Log2From(IF up THEN n ELSE d, IF up THEN d ELSE n, 1024)
        \* the least g with n * 2^g >= d
        g == IF BigShift(n, f) = d THEN f ELSE f + 1
        \* 2^e <= n / d = (n1 / d1) * 2^e, and d1 <= n1 < 2 * d1
        e == IF up THEN f ELSE -g
        n1 == IF up THEN n ELSE BigShift(n, g)
        d1 == IF up THEN BigShift(d, f) ELSE d
        \* the last binary digit is worth 2^t, and there are p of them
        t == IF e - 52 > -1074 THEN e - 52 ELSE -1074
        p == e - t + 1
    IN  IF p < 0 THEN [num |-> "0", den |-> "1"]
        ELSE RoundHalfEven(sign, DivBits(n1, d1, p), d1, p, t)

\* the mantissa and exponent texts of an unsigned decimal literal
Mantissa(u) == SubSeq(u, 1, FirstOf(u, {"e", "E"}, 1) - 1)

HasExponent(u) == FirstOf(u, {"e", "E"}, 1) <= Len(u)

Exponent(u) == SubSeq(u, FirstOf(u, {"e", "E"}, 1) + 1, Len(u))

IntPart(m) == SubSeq(m, 1, FirstOf(m, {"."}, 1) - 1)

FracPart(m) == SubSeq(m, FirstOf(m, {"."}, 1) + 1, Len(m))

IsSpecialFloat(u) ==
    Len(u) <= 8 /\ Lower(u) \in {<<"i", "n", "f">>, <<"n", "a", "n">>,
                  <<"i", "n", "f", "i", "n", "i", "t", "y">>}

\* float(s) does not raise ValueError
FloatOk(s) ==
    LET u == Unsigned(s)
    IN  \/ IsSpecialFloat(u)
        \/ /\ Len(IntPart(Mantissa(u))) + Len(FracPart(Mantissa(u))) >= 1
           /\ Len(IntPart(Mantissa(u))) >= 1 => DigitsOk(IntPart(Mantissa(u)))
           /\ Len(FracPart(Mantissa(u))) >= 1 => DigitsOk(FracPart(Mantissa(u)))
           /\ HasExponent(u) => DigitsOk(Unsigned(Exponent(u)))

\* float(s): the literal is digits * 10^e10, rounded to the nearest double
FloatVal(s) ==
    LET u == Unsigned(s)
        m == Mantissa(u)
        \* the digits of a digit string as a number, underscores left out
        Number(w) == LET d == SelectSeq(w, IsDigit)
                     IN  BigNorm(SubSeq([k \in 1..Len(d) |-> DigitValue[d[k]]], 1, Len(d)))
        digits == Number(IntPart(m) \o FracPart(m))
        \* the exponent as written; one of ten digits or more stands for
        \* +-10^9, which no count of digits of a literal comes near
        exponent == IF ~HasExponent(u) THEN 0
                    ELSE IF Len(Number(Exponent(u))) > 9
                    THEN SignOf(Exponent(u)) * 1000000000
                    ELSE IntVal(Exponent(u))
        e10 == exponent - Len(SelectSeq(FracPart(m), IsDigit))
        \* the zeros at the end of the digits, which cancel against a negative
        \* e10
        zeros == CHOOSE z \in 0..(Len(digits) - 1) :
                     /\ digits[Len(digits) - z] # 0
                     /\ \A j \in 0..(z - 1) : digits[Len(digits) - j] = 0
        cut == IF zeros < -e10 THEN zeros ELSE IF e10 < 0 THEN -e10 ELSE 0
        minus == IF SignOf(s) < 0 THEN "-" ELSE ""
    IN  IF IsSpecialFloat(u)
        THEN IF Lower(u) = <<"n", "a", "n">> THEN [num |-> "0", den |-> "0"]
             ELSE [num |-> minus \o "1", den |-> "0"]
        ELSE IF digits = <<>> THEN [num |-> "0", den |-> "1"]
        ELSE IF Len(digits) + e10 > 310 THEN [num |-> minus \o "1", den |-> "0"]
        ELSE IF Len(digits) + e10 < -330 THEN [num |-> "0", den |-> "1"]
        ELSE RoundToDouble(SignOf(s),
                           SubSeq(digits, 1, Len(digits) - cut) \o [k \in 1..e10 |-> 0],
                           <<1>> \o [k \in 1..(-e10 - cut) |-> 0])

(***************************************************************************)
(* keywords.py                                                             *)
(***************************************************************************)
ELEMENTS == {
    <<"H">>, <<"H", "e">>, <<"L", "i">>, <<"B", "e">>, <<"B">>, <<"C">>,
    <<"N">>, <<"O">>, <<"F">>, <<"N", "e">>, <<"N", "a">>, <<"M", "g">>,
    <<"A", "l">>, <<"S", "i">>, <<"P">>, <<"S">>, <<"C", "l">>, <<"A", "r">>,
    <<"K">>, <<"C", "a">>, <<"S", "c">>, <<"T", "i">>, <<"V">>, <<"C", "r">>,
    <<"M", "n">>, <<"F", "e">>, <<"C", "o">>, <<"N", "i">>, <<"C", "u">>, <<"Z", "n">>,
    <<"G", "a">>, <<"G", "e">>, <<"A", "s">>, <<"S", "e">>, <<"B", "r">>, <<"K", "r">>,
    <<"R", "b">>, <<"S", "r">>, <<"Y">>, <<"Z", "r">>, <<"N", "b">>, <<"M", "o">>,
    <<"T", "c">>, <<"R", "u">>, <<"R", "h">>, <<"P", "d">>, <<"A", "g">>, <<"C", "d">>,
    <<"I", "n">>, <<"S", "n">>, <<"S", "b">>, <<"T", "e">>, <<"I">>, <<"X", "e">>,
    <<"C", "s">>, <<"B", "a">>, <<"L", "a">>, <<"C", "e">>, <<"P", "r">>, <<"N", "d">>,
    <<"P", "m">>, <<"S", "m">>, <<"E", "u">>, <<"G", "d">>, <<"T", "b">>, <<"D", "y">>,
    <<"H", "o">>, <<"E", "r">>, <<"T", "m">>, <<"Y", "b">>, <<"L", "u">>, <<"H", "f">>,
    <<"T", "a">>, <<"W">>, <<"R", "e">>, <<"O", "s">>, <<"I", "r">>, <<"P", "t">>,
    <<"A", "u">>, <<"H", "g">>, <<"T", "l">>, <<"P", "b">>, <<"B", "i">>, <<"P", "o">>,
    <<"A", "t">>, <<"R", "n">> }

\* DFT_FUNCTIONALS, in the order of the dict
DFT_FUNCTIONALS == <<
    [name |-> <<"B", "3", "L", "Y", "P">>,
     type |-> "hybrid",
     description |-> "B3LYP hybrid functional (20% HF exchange)"],
    [name |-> <<"P", "B", "E", "0">>,
     type |-> "hybrid",
     description |-> "PBE0 hybrid functional (25% HF exchange)"],
    [name |-> <<"T", "P", "S", "S", "0">>,
     type |-> "hybrid",
     description |-> "TPSS0 hybrid functional"],
    [name |-> <<"M", "0", "6">>,
     type |-> "hybrid",
     description |-> "M06 hybrid meta-GGA functional"],
    [name |-> <<"M", "0", "6", "-", "2", "X">>,
     type |-> "hybrid",
     description |-> "M06-2X hybrid meta-GGA functional (54% HF exchange)"],
    [name |-> <<"M", "0", "6", "L">>,
     type |-> "meta-gga",
     description |-> "M06L meta-GGA functional"],
    [name |-> <<"M", "0", "6", "-", "H", "F">>,
     type |-> "hybrid",
     description |-> "M06-HF high-HF exchange functional (100% HF)"],
    [name |-> <<"ω", "B", "9", "7", "X", "-", "D">>,
     type |-> "hybrid",
     description |-> "ωB97X-D range-separated hybrid functional with dispersion"],
    [name |-> <<"ω", "B", "9", "7", "X", "-", "V">>,
     type |-> "hybrid",
     description |-> "ωB97X-V range-separated hybrid functional"],
    [name |-> <<"B", "9", "7", "-", "D">>,
     type |-> "gga",
     description |-> "B97-D GGA functional with dispersion"],
    [name |-> <<"B", "9", "7", "-", "D", "3">>,
     type |-> "gga",
     description |-> "B97-D3 GGA functional with D3 dispersion"],
    [name |-> <<"B", "2", "P", "L", "Y", "P">>,
     type |-> "double-hybrid",
     description |-> "B2PLYP double-hybrid functional"],
    [name |-> <<"D", "S", "D", "-", "B", "L", "Y", "P">>,
     type |-> "double-hybrid",
     description |-> "DSD-BLYP double-hybrid functional"],
    [name |-> <<"P", "B", "E">>,
     type |-> "gga",
     description |-> "PBE GGA functional"],
    [name |-> <<"B", "P", "8", "6">>,
     type |-> "gga",
     description |-> "Becke-Perdew 86 GGA functional"],
    [name |-> <<"B", "L", "Y", "P">>,
     type |-> "gga",
     description |-> "Becke-Lee-Yang-Parr GGA functional"],
    [name |-> <<"T", "P", "S", "S">>,
     type |-> "meta-gga",
     description |-> "TPSS meta-GGA functional"],
    [name |-> <<"B", "9", "7">>,
     type |-> "gga",
     description |-> "B97 GGA functional"],
    [name |-> <<"r", "e", "v", "P", "B", "E">>,
     type |-> "gga",
     description |-> "Revised PBE GGA functional"],
    [name |-> <<"R", "P", "B", "E">>,
     type |-> "gga",
     description |-> "RPBE GGA functional"],
    [name |-> <<"O", "L", "Y", "P">>,
     type |-> "gga",
     description |-> "Handy-Cohen optimized LYP functional"]>>

\* WAVEFUNCTION_METHODS, in the order of the dict
WAVEFUNCTION_METHODS == <<
    [name |-> <<"H", "F">>,
     description |-> "Hartree-Fock method"],
    [name |-> <<"R", "H", "F">>,
     description |-> "Restricted Hartree-Fock"],
    [name |-> <<"U", "H", "F">>,
     description |-> "Unrestricted Hartree-Fock"],
    [name |-> <<"R", "O", "H", "F">>,
     description |-> "Restricted Open-shell Hartree-Fock"],
    [name |-> <<"M", "P", "2">>,
     description |-> "Møller-Plesset second-order perturbation theory"],
    [name |-> <<"R", "I", "-", "M", "P", "2">>,
     description |-> "Resolution-of-Identity MP2"],
    [name |-> <<"S", "C", "S", "-", "M", "P", "2">>,
     description |-> "Spin-component scaled MP2"],
    [name |-> <<"M", "P", "3">>,
     description |-> "Møller-Plesset third-order perturbation theory"],
    [name |-> <<"C", "C", "S", "D">>,
     description |-> "Coupled Cluster Singles and Doubles"],
    [name |-> <<"C", "C", "S", "D", "(", "T", ")">>,
     description |-> "CCSD with perturbative triples (gold standard)"],
    [name |-> <<"D", "L", "P", "N", "O", "-", "C", "C", "S", "D">>,
     description |-> "Domain-based Local Pair Natural Orbital CCSD"],
    [name |-> <<"D", "L", "P", "N", "O", "-", "C", "C", "S", "D", "(", "T", ")">>,
     description |-> "DLPNO-CCSD with perturbative triples"],
    [name |-> <<"C", "A", "S", "S", "C", "F">>,
     description |-> "Complete Active Space SCF"],
    [name |-> <<"N", "E", "V", "P", "T", "2">>,
     description |-> "N-electron valence state PT2"],
    [name |-> <<"C", "A", "S", "P", "T", "2">>,
     description |-> "Complete Active Space PT2"],
    [name |-> <<"M", "R", "P", "T">>,
     description |-> "Multireference perturbation theory"]>>

\* BASIS_SETS, in the order of the dict
BASIS_SETS == <<
    [name |-> <<"S", "T", "O", "-", "3", "G">>,
     type |-> "minimal",
     description |-> "Minimal basis set (Slater-type orbitals with 3 Gaussians)"],
    [name |-> <<"3", "-", "2", "1", "G">>,
     type |-> "small",
     description |-> "Small split-valence basis set"],
    [name |-> <<"6", "-", "3", "1", "G">>,
     type |-> "medium",
     description |-> "Split-valence basis set with 6 Gaussians for core"],
    [name |-> <<"6", "-", "3", "1", "G", "*">>,
     type |-> "medium-polarized",
     description |-> "6-31G with d polarization on non-hydrogen atoms"],
    [name |-> <<"6", "-", "3", "1", "G", "*", "*">>,
     type |-> "medium-polarized",
     description |-> "6-31G with d polarization on non-H and p on H"],
    [name |-> <<"6", "-", "3", "1", "+", "G", "*">>,
     type |-> "medium-diffuse",
     description |-> "6-31G* with diffuse functions on non-H"],
    [name |-> <<"6", "-", "3", "1", "1", "G">>,
     type |-> "large",
     description |-> "Triple-zeta split-valence basis"],
    [name |-> <<"6", "-", "3", "1", "1", "G", "*">>,
     type |-> "large-polarized",
     description |-> "6-311G with d polarization"],
    [name |-> <<"6", "-", "3", "1", "1", "G", "*", "*">>,
     type |-> "large-polarized",
     description |-> "6-311G with d on non-H and p on H"],
    [name |-> <<"6", "-", "3", "1", "1", "+", "G", "*">>,
     type |-> "large-diffuse",
     description |-> "6-311G* with diffuse functions"],
    [name |-> <<"6", "-", "3", "1", "1", "+", "+", "G", "*", "*">>,
     type |-> "large-diffuse",
     description |-> "6-311G** with diffuse on all atoms"],
    [name |-> <<"d", "e", "f", "2", "-", "S", "V", "P">>,
     type |-> "medium",
     description |-> "Karlsruhe split-valence polarized basis"],
    [name |-> <<"d", "e", "f", "2", "-", "T", "Z", "V", "P">>,
     type |-> "large",
     description |-> "Karlsruhe triple-zeta valence polarized basis"],
    [name |-> <<"d", "e", "f", "2", "-", "T", "Z", "V", "P", "P">>,
     type |-> "large",
     description |-> "Karlsruhe triple-zeta with more polarization"],
    [name |-> <<"d", "e", "f", "2", "-", "Q", "Z", "V", "P">>,
     type |-> "very-large",
     description |-> "Karlsruhe quadruple-zeta valence polarized"],
    [name |-> <<"d", "e", "f", "2", "-", "Q", "Z", "V", "P", "P">>,
     type |-> "very-large",
     description |-> "Karlsruhe quadruple-zeta with more polarization"],
    [name |-> <<"d", "e", "f", "2", "-", "S", "V", "P", "D">>,
     type |-> "medium-diffuse",
     description |-> "def2-SVP with diffuse functions"],
    [name |-> <<"d", "e", "f", "2", "-", "T", "Z", "V", "P", "D">>,
     type |-> "large-diffuse",
     description |-> "def2-TZVP with diffuse functions"],
    [name |-> <<"c", "c", "-", "p", "V", "D", "Z">>,
     type |-> "medium",
     description |-> "Correlation-consistent polarized valence double-zeta"],
    [name |-> <<"c", "c", "-", "p", "V", "T", "Z">>,
     type |-> "large",
     description |-> "Correlation-consistent polarized valence triple-zeta"],
    [name |-> <<"c", "c", "-", "p", "V", "Q", "Z">>,
     type |-> "very-large",
     description |-> "Correlation-consistent polarized valence quadruple-zeta"],
    [name |-> <<"c", "c", "-", "p", "V", "5", "Z">>,
     type |-> "huge",
     description |-> "Correlation-consistent polarized valence quintuple-zeta"],
    [name |-> <<"a", "u", "g", "-", "c", "c", "-", "p", "V", "D", "Z">>,
     type |-> "medium-diffuse",
     description |-> "cc-pVDZ with diffuse functions"],
    [name |-> <<"a", "u", "g", "-", "c", "c", "-", "p", "V", "T", "Z">>,
     type |-> "large-diffuse",
     description |-> "cc-pVTZ with diffuse functions"],
    [name |-> <<"a", "u", "g", "-", "c", "c", "-", "p", "V", "Q", "Z">>,
     type |-> "very-large-diffuse",
     description |-> "cc-pVQZ with diffuse functions"],
    [name |-> <<"d", "e", "f", "2", "/", "J">>,
     type |-> "auxiliary",
     description |-> "Karlsruhe auxiliary basis for Coulomb fitting"],
    [name |-> <<"d", "e", "f", "2", "-", "T", "Z", "V", "P", "/", "C">>,
     type |-> "auxiliary",
     description |-> "Karlsruhe auxiliary basis for correlation (TZVP)"],
    [name |-> <<"d", "e", "f", "2", "-", "Q", "Z", "V", "P", "/", "C">>,
     type |-> "auxiliary",
     description |-> "Karlsruhe auxiliary basis for correlation (QZVP)"],
    [name |-> <<"c", "c", "-", "p", "V", "T", "Z", "-", "f", "1", "2", "-", "o", "p", "t", "r", "i">>,
     type |-> "auxiliary",
     description |-> "Optimal RI auxiliary basis for F12 methods"]>>

\* JOB_TYPES, in the order of the dict
JOB_TYPES == <<
    [name |-> <<"S", "P">>,
     description |-> "Single point energy calculation"],
    [name |-> <<"O", "P", "T">>,
     description |-> "Geometry optimization"],
    [name |-> <<"F", "R", "E", "Q">>,
     description |-> "Frequency calculation (analytical or numerical)"],
    [name |-> <<"N", "U", "M", "F", "R", "E", "Q">>,
     description |-> "Numerical frequency calculation"],
    [name |-> <<"O", "P", "T", " ", "F", "R", "E", "Q">>,
     description |-> "Geometry optimization followed by frequency"],
    [name |-> <<"T", "S">>,
     description |-> "Transition state optimization"],
    [name |-> <<"I", "R", "C">>,
     description |-> "Intrinsic reaction coordinate calculation"],
    [name |-> <<"S", "C", "A", "N">>,
     description |-> "Potential energy surface scan"],
    [name |-> <<"M", "D">>,
     description |-> "Molecular dynamics simulation"],
    [name |-> <<"M", "O", "L", "E", "C", "U", "L", "A", "R", " ", "D", "Y", "N", "A", "M", "I", "C", "S">>,
     description |-> "Molecular dynamics simulation"]>>

\* PERCENT_BLOCKS, in the order of the dict
PERCENT_BLOCKS == <<
    [name |-> <<"m", "a", "x", "c", "o", "r", "e">>,
     description |-> "Set memory per core in MB",
     example |-> "%maxcore 4000"],
    [name |-> <<"p", "a", "l">>,
     description |-> "Parallelization settings",
     example |-> "%pal nprocs 4 end"],
    [name |-> <<"m", "e", "t", "h", "o", "d">>,
     description |-> "Method-specific settings",
     example |-> "%method D3BJ end"],
    [name |-> <<"b", "a", "s", "i", "s">>,
     description |-> "Basis set settings",
     example |-> "%basis newGTO H \"cc-pVTZ\" end"],
    [name |-> <<"s", "c", "f">>,
     description |-> "SCF convergence settings",
     example |-> "%scf maxiter 100 end"],
    [name |-> <<"g", "e", "o", "m">>,
     description |-> "Geometry optimization settings",
     example |-> "%geom maxiter 50 end"],
    [name |-> <<"f", "r", "e", "q">>,
     description |-> "Frequency calculation settings",
     example |-> "%freq temp 298.15 end"],
    [name |-> <<"m", "d">>,
     description |-> "Molecular dynamics settings",
     example |-> "%md timestep 0.5 end"],
    [name |-> <<"l", "o", "c">>,
     description |-> "Orbital localization settings",
     example |-> "%loc LocMet IBO end"],
    [name |-> <<"p", "l", "o", "t", "s">>,
     description |-> "Plot generation settings",
     example |-> "%plots format cube end"],
    [name |-> <<"c", "p">>,
     description |-> "Counterpoise correction settings",
     example |-> "%cp fragments 2 end"],
    [name |-> <<"e", "l", "p", "r", "o", "p">>,
     description |-> "Electronic properties settings",
     example |-> "%elprop dipole true end"],
    [name |-> <<"c", "o", "o", "r", "d", "s">>,
     description |-> "Coordinate system settings",
     example |-> "%coords internals on end"]>>

\* dict.keys() as a set
Keys(table) == {table[k].name : k \in 1..Len(table)}

(***************************************************************************)
(* parser.py: the % blocks                                                 *)
(***************************************************************************)
S_end == <<"e", "n", "d">>

S_maxcore == <<"m", "a", "x", "c", "o", "r", "e">>

S_pal == <<"p", "a", "l">>

S_method == <<"m", "e", "t", "h", "o", "d">>

S_scf == <<"s", "c", "f">>

S_nprocs == <<"n", "p", "r", "o", "c", "s">>

S_maxiter == <<"m", "a", "x", "i", "t", "e", "r">>

S_d3bj == <<"d", "3", "b", "j">>

S_d3 == <<"d", "3">>

S_d4 == <<"d", "4">>

S_xyz == <<"x", "y", "z">>

\* least index >= k of a character that is not a word character
FirstNonWord(s, k) ==
    IF k > Len(s) THEN k
    ELSE IF \E j \in k..Len(s) : ~IsWordChar(s[j])
    THEN CHOOSE j \in k..Len(s) : ~IsWordChar(s[j]) /\ \A m \in k..(j - 1) : IsWordChar(s[m])
    ELSE Len(s) + 1

\* least index >= k of a character that is not a digit
FirstNonDigit(s, k) ==
    IF k > Len(s) THEN k
    ELSE IF \E j \in k..Len(s) : ~IsDigit(s[j])
    THEN CHOOSE j \in k..Len(s) : ~IsDigit(s[j]) /\ \A m \in k..(j - 1) : IsDigit(s[m])
    ELSE Len(s) + 1

\* re.match(r'%\s*(\w+)', s): None, or Some(group 1)
MatchBlockName(s) ==
    IF Len(s) = 0 \/ s[1] # "%" THEN None
    ELSE LET a == FirstNonSpace(s, 2)
             b == FirstNonWord(s, a)
         IN  IF b > a THEN Some(SubSeq(s, a, b - 1)) ELSE None

\* the match of key\s+(\d+) that starts at index p of s: None, or Some(group 1)
MatchKeyNumAt(s, key, p) ==
    LET q == p + Len(key)
        a == FirstNonSpace(s, q)
        b == FirstNonDigit(s, a)
    IN  IF /\ q - 1 <= Len(s)
           /\ SubSeq(s, p, q - 1) = key
           /\ a > q
           /\ b > a
        THEN Some(SubSeq(s, a, b - 1))
        ELSE None

\* re.search(key + r'\s+(\d+)', s): the leftmost match from index p on
SearchKeyNumFrom(s, key, p) ==
    LET starts == p..(Len(s) - Len(key) + 1)
    IN  IF \E j \in starts : MatchKeyNumAt(s, key, j) # None
        THEN MatchKeyNumAt(s, key,
                 CHOOSE j \in starts : /\ MatchKeyNumAt(s, key, j) # None
                                       /\ \A m \in p..(j - 1) : MatchKeyNumAt(s, key, m) = None)
        ELSE None

\* re.search(key + r'\s+(\d+)', s, re.IGNORECASE), key in lower case: a letter
\* of the key matches the characters that lower() takes to it and, for s, the
\* long s U+017F as well
SearchKeyNum(s, key) ==
    SearchKeyNumFrom([k \in 1..Len(s) |-> IF s[k] = "\\u017f" THEN "s" ELSE LowerChar(s[k])], key, 1)

\* the body of the loop over the lines of a maxcore block
MaxcoreLine(params, line) ==
    LET parts == Split(line)
    IN  IF /\ Len(parts) >= 2
           /\ Lower(parts[1]) = <<"%">> \o S_maxcore
           /\ IntOk(parts[2])
        THEN ("memory" :> IntVal(parts[2])) @@ params
        ELSE params

\* the body of the loop over the lines of a pal block: the parameters, or
\* the exception that int() raises
PalLine(params, line) ==
    IF Contains(Lower(line), S_nprocs) /\ SearchKeyNum(line, S_nprocs) # None
    THEN LET g == SearchKeyNum(line, S_nprocs)[1]
         IN  IF ExceedsLimit(g) THEN [raised |-> "ValueError"]
             ELSE ("nprocs" :> DigitsVal(g, Len(g))) @@ params
    ELSE params

\* the body of the loop over the lines of a method block
MethodLine(params, line) ==
    LET stripped == Lower(Strip(line))
    IN  IF Contains(stripped, S_d3bj) THEN ("dispersion" :> "D3BJ") @@ params
        ELSE IF Contains(stripped, S_d3) THEN ("dispersion" :> "D3") @@ params
        ELSE IF Contains(stripped, S_d4) THEN ("dispersion" :> "D4") @@ params
        ELSE params

\* the body of the loop over the lines of an scf block: the parameters, or
\* the exception that int() raises
ScfLine(params, line) ==
    LET stripped == Lower(Strip(line))
    IN  IF Contains(stripped, S_maxiter) /\ SearchKeyNumFrom(stripped, S_maxiter, 1) # None
        THEN LET g == SearchKeyNumFrom(stripped, S_maxiter, 1)[1]
             IN  IF ExceedsLimit(g) THEN [raised |-> "ValueError"]
                 ELSE ("maxiter" :> DigitsVal(g, Len(g))) @@ params
        ELSE params

\* one iteration of the loop that _parse_block_parameters runs for a block name
ParameterLine(name, params, line) ==
    IF name = S_maxcore THEN MaxcoreLine(params, line)
    ELSE IF name = S_pal THEN PalLine(params, line)
    ELSE IF name = S_method THEN MethodLine(params, line)
    ELSE IF name = S_scf THEN ScfLine(params, line)
    ELSE params

\* an exception has been raised
Raised(outcome) == "raised" \in DOMAIN outcome

\* the parameters after the first k lines of ls have been looked at, or the
\* exception that one of these lines has raised
RECURSIVE ParametersUpTo(_, _, _)
ParametersUpTo(name, ls, k) ==
    IF k = 0 THEN <<>>
    ELSE LET params == ParametersUpTo(name, ls, k - 1)
         IN  IF Raised(params) THEN params ELSE ParameterLine(name, params, ls[k])

\* _parse_block_parameters(block, content): the parameters it leaves in
\* block, or the exception it raises
ParseBlockParameters(name, content) ==
    LET ls == SplitLines(content)
    IN  ParametersUpTo(name, ls, Len(ls))

\* the index at which the loop of a multi-line block stops: the first line
\* from k on that is 'end', len(lines) if there is none
RECURSIVE BlockEnd(_, _)
BlockEnd(ls, k) ==
    IF k >= Len(ls) \/ Lower(Strip(Line(ls, k))) = S_end THEN k
    ELSE BlockEnd(ls, k + 1)

\* parse_percent_block(lines, start_line): the pair (block, end_line), or the
\* exception that _parse_block_parameters raises
ParsePercentBlock(ls, start_line) ==
    LET first_line == Strip(Line(ls, start_line))
        match == MatchBlockName(first_line)
        name == Lower(match[1])
        i == BlockEnd(ls, start_line + 1)
        last == IF i < Len(ls) THEN i ELSE Len(ls) - 1
        raw == JoinLines(<<first_line>> \o SubSeq(ls, start_line + 2, last + 1))
        single == Contains(Lower(first_line), S_end) \/ EndsWith(Lower(first_line), S_end)
        parameters == ParseBlockParameters(name, IF single THEN first_line ELSE raw)
    IN  IF match = None
        THEN [block |-> None, end_line |-> start_line]
        ELSE IF Raised(parameters) THEN parameters
        ELSE IF single
        THEN [block |-> Some([name |-> name,
                              parameters |-> parameters,
                              raw_content |-> first_line,
                              line_start |-> start_line,
                              line_end |-> 0]),
              end_line |-> start_line]
        ELSE [block |-> Some([name |-> name,
                              parameters |-> parameters,
                              raw_content |-> raw,
                              line_start |-> start_line,
                              line_end |-> i]),
              end_line |-> i]

(***************************************************************************)
(* parser.py: the geometry section                                         *)
(***************************************************************************)
\* Atom.is_valid, had it compared the symbols without regard to letter case
AtomIsValidAnyCase(atom) == \E e \in ELEMENTS : Lower(e) = Lower(atom.element)

\* Atom.is_valid
AtomIsValid(atom) == atom.element \in ELEMENTS

\* Geometry.is_valid
GeometryIsValid(geom) ==
    Len(geom.atoms) > 0 /\ \A k \in 1..Len(geom.atoms) : AtomIsValid(geom.atoms[k])

\* AtomsOfLine, had it read a coordinate that is not a number as 0.0
AtomsOfLineLenient(ls, i) ==
    LET atom_parts == Split(Strip(Line(ls, i)))
        Coordinate(s) == IF FloatOk(s) THEN FloatVal(s) ELSE [num |-> "0", den |-> "1"]
    IN  IF Len(atom_parts) >= 4
        THEN <<[element |-> atom_parts[1],
                x |-> Coordinate(atom_parts[2]),
                y |-> Coordinate(atom_parts[3]),
                z |-> Coordinate(atom_parts[4]),
                line_number |-> i]>>
        ELSE <<>>

\* the atoms one line of a geometry section adds: one or none
AtomsOfLine(ls, i) ==
    LET atom_parts == Split(Strip(Line(ls, i)))
    IN  IF /\ Len(atom_parts) >= 4
           /\ FloatOk(atom_parts[2])
           /\ FloatOk(atom_parts[3])
           /\ FloatOk(atom_parts[4])
        THEN <<[element |-> atom_parts[1],
                x |-> FloatVal(atom_parts[2]),
                y |-> FloatVal(atom_parts[3]),
                z |-> FloatVal(atom_parts[4]),
                line_number |-> i]>>
        ELSE <<>>

\* the index at which the atom loop stops: the first line from k on that is
\* '*', len(lines) if there is none
RECURSIVE GeometryEnd(_, _)
GeometryEnd(ls, k) ==
    IF k >= Len(ls) \/ Strip(Line(ls, k)) = <<"*">> THEN k
    ELSE GeometryEnd(ls, k + 1)

\* the atoms of the lines k .. stop-1
RECURSIVE AtomsBetween(_, _, _)
AtomsBetween(ls, k, stop) ==
    IF k >= stop THEN <<>>
    ELSE AtomsOfLine(ls, k) \o AtomsBetween(ls, k + 1, stop)

\* charge and multiplicity as the header leaves them
HeaderCharge(parts) ==
    IF Len(parts) >= 4 /\ IntOk(parts[3]) THEN IntVal(parts[3]) ELSE 0

HeaderMultiplicity(parts) ==
    IF Len(parts) >= 4 /\ IntOk(parts[3]) /\ IntOk(parts[4]) THEN IntVal(parts[4]) ELSE 1

\* ParseGeometry, had it taken a lone * for the header of an xyz section
ParseGeometryLoneStar(ls, start_line) ==
    LET parts == Split(Strip(Line(ls, start_line)))
        i == GeometryEnd(ls, start_line + 1)
        line_end == IF i < Len(ls) THEN i ELSE 0
    IN  [geom |-> Some([charge |-> HeaderCharge(parts),
                        multiplicity |-> HeaderMultiplicity(parts),
                        atoms |-> AtomsBetween(ls, start_line + 1, i),
                        format_type |-> IF Len(parts) < 2 THEN S_xyz ELSE Lower(parts[2]),
                        line_start |-> start_line,
                        line_end |-> line_end]),
         end_line |-> IF line_end > 0 THEN line_end ELSE i]

\* parse_geometry(lines, start_line): the pair (geom, end_line)
ParseGeometry(ls, start_line) ==
    LET parts == Split(Strip(Line(ls, start_line)))
        i == GeometryEnd(ls, start_line + 1)
        line_end == IF i < Len(ls) THEN i ELSE 0
    IN  IF Len(parts) < 2
        THEN [geom |-> None, end_line |-> start_line]
        ELSE [geom |-> Some([charge |-> HeaderCharge(parts),
                             multiplicity |-> HeaderMultiplicity(parts),
                             atoms |-> AtomsBetween(ls, start_line + 1, i),
                             format_type |-> Lower(parts[2]),
                             line_start |-> start_line,
                             line_end |-> line_end]),
              end_line |-> IF line_end > 0 THEN line_end ELSE i]

(***************************************************************************)
(* parser.py: the diagnostics                                              *)
(***************************************************************************)
MsgMissingSimpleInput == "Missing simple input line (!) with method and basis set"

MsgNoMethod == "No method specified in simple input (e.g., B3LYP, HF, MP2)"

MsgNoBasisSet == "No basis set specified in simple input (e.g., def2-TZVP, 6-31G*)"

MsgMissingGeometry == "Missing geometry section (* xyz charge multiplicity ...)"

MsgInvalidElement == "Invalid element symbol: "

MsgMissingMaxcore == "Missing %maxcore setting. Recommended: %maxcore 2000-4000 (MB per core)"

\* the characters of the literal texts of the messages
TextChars ==
    ("" :> <<>>)
    @@ (MsgMissingSimpleInput :>
         <<"M", "i", "s", "s", "i", "n", "g", " ", "s", "i", "m", "p", "l", "e",
         " ", "i", "n", "p", "u", "t", " ", "l", "i", "n", "e", " ", "(", "!",
         ")", " ", "w", "i", "t", "h", " ", "m", "e", "t", "h", "o", "d", " ",
         "a", "n", "d", " ", "b", "a", "s", "i", "s", " ", "s", "e", "t">>)
    @@ (MsgNoMethod :>
         <<"N", "o", " ", "m", "e", "t", "h", "o", "d", " ", "s", "p", "e", "c",
         "i", "f", "i", "e", "d", " ", "i", "n", " ", "s", "i", "m", "p", "l",
         "e", " ", "i", "n", "p", "u", "t", " ", "(", "e", ".", "g", ".", ",",
         " ", "B", "3", "L", "Y", "P", ",", " ", "H", "F", ",", " ", "M", "P",
         "2", ")">>)
    @@ (MsgNoBasisSet :>
         <<"N", "o", " ", "b", "a", "s", "i", "s", " ", "s", "e", "t", " ", "s",
         "p", "e", "c", "i", "f", "i", "e", "d", " ", "i", "n", " ", "s", "i",
         "m", "p", "l", "e", " ", "i", "n", "p", "u", "t", " ", "(", "e", ".",
         "g", ".", ",", " ", "d", "e", "f", "2", "-", "T", "Z", "V", "P", ",",
         " ", "6", "-", "3", "1", "G", "*", ")">>)
    @@ (MsgMissingGeometry :>
         <<"M", "i", "s", "s", "i", "n", "g", " ", "g", "e", "o", "m", "e", "t",
         "r", "y", " ", "s", "e", "c", "t", "i", "o", "n", " ", "(", "*", " ",
         "x", "y", "z", " ", "c", "h", "a", "r", "g", "e", " ", "m", "u", "l",
         "t", "i", "p", "l", "i", "c", "i", "t", "y", " ", ".", ".", ".", ")">>)
    @@ (MsgInvalidElement :>
         <<"I", "n", "v", "a", "l", "i", "d", " ", "e", "l", "e", "m", "e", "n",
         "t", " ", "s", "y", "m", "b", "o", "l", ":", " ">>)
    @@ (MsgMissingMaxcore :>
         <<"M", "i", "s", "s", "i", "n", "g", " ", "%", "m", "a", "x", "c", "o",
         "r", "e", " ", "s", "e", "t", "t", "i", "n", "g", ".", " ", "R", "e",
         "c", "o", "m", "m", "e", "n", "d", "e", "d", ":", " ", "%", "m", "a",
         "x", "c", "o", "r", "e", " ", "2", "0", "0", "0", "-", "4", "0", "0",
         "0", " ", "(", "M", "B", " ", "p", "e", "r", " ", "c", "o", "r", "e",
         ")">>)

\* the characters of a message: its literal text, then the interpolated text
MessageChars(message) == TextChars[message.text] \o message.arg

\* a finding: the message is its literal text followed by the interpolated
\* text arg (empty when the message is a plain literal)
Finding(text, arg, line, severity) ==
    [message |-> [text |-> text, arg |-> arg], line |-> line, severity |-> severity]

\* SimpleInputErrors, had it kept silent about a missing simple input line
SimpleInputErrorsSilent(simple_input) ==
    IF simple_input = None
    THEN <<>>
    ELSE (IF Len(simple_input[1].methods) = 0
          THEN <<Finding(MsgNoMethod, <<>>, 0, "error")>> ELSE <<>>)
         \o
         (IF Len(simple_input[1].basis_sets) = 0
          THEN <<Finding(MsgNoBasisSet, <<>>, 0, "error")>> ELSE <<>>)

\* the findings about the simple input line
SimpleInputErrors(simple_input) ==
    IF simple_input = None
    THEN <<Finding(MsgMissingSimpleInput, <<>>, 0, "error")>>
    ELSE (IF Len(simple_input[1].methods) = 0
          THEN <<Finding(MsgNoMethod, <<>>, 0, "error")>> ELSE <<>>)
         \o
         (IF Len(simple_input[1].basis_sets) = 0
          THEN <<Finding(MsgNoBasisSet, <<>>, 0, "error")>> ELSE <<>>)

\* the invalid-element findings of the atoms k .. last
RECURSIVE AtomErrors(_, _)
AtomErrors(atoms, k) ==
    IF k > Len(atoms) THEN <<>>
    ELSE (IF ~AtomIsValid(atoms[k])
          THEN <<Finding(MsgInvalidElement, atoms[k].element, atoms[k].line_number, "error")>>
          ELSE <<>>)
         \o AtomErrors(atoms, k + 1)

\* GeometryErrors, had it kept silent about a missing section
GeometryErrorsSilent(geometry) ==
    IF geometry = None THEN <<>> ELSE AtomErrors(geometry[1].atoms, 1)

\* the findings about the geometry section
GeometryErrors(geometry) ==
    IF geometry = None
    THEN <<Finding(MsgMissingGeometry, <<>>, 0, "error")>>
    ELSE AtomErrors(geometry[1].atoms, 1)

\* the maxcore recommendation
MaxcoreWarnings(percent_blocks) ==
    IF \E k \in 1..Len(percent_blocks) : percent_blocks[k].name = S_maxcore
    THEN <<>>
    ELSE <<Finding(MsgMissingMaxcore, <<>>, 0, "warning")>>

\* RunDiagnostics, had it looked at the geometry before the simple input
RunDiagnosticsGeometryFirst(r) ==
    [r EXCEPT !.errors = r.errors \o GeometryErrors(r.geometry)
                                  \o SimpleInputErrors(r.simple_input),
              !.warnings = r.warnings \o MaxcoreWarnings(r.percent_blocks)]

\* _run_diagnostics(result): result with its errors and warnings filled in
RunDiagnostics(r) ==
    [r EXCEPT !.errors = r.errors \o SimpleInputErrors(r.simple_input)
                                  \o GeometryErrors(r.geometry),
              !.warnings = r.warnings \o MaxcoreWarnings(r.percent_blocks)]

(***************************************************************************)
(* parser.py: ORCAParser.parse as a state machine, one step per iteration  *)
(* of its loop over the lines                                              *)
(***************************************************************************)
VARIABLES
    pc,        \* "idle": no call in progress; "scan": in the loop of parse;
               \* "done": parse has returned result; "raised": parse has
               \* raised the exception named by exc
    content,   \* the text parse was called with
    lines,     \* content.split('\n')
    i,         \* the line index of the loop
    result,    \* the ParseResult under construction, then returned
    exc,       \* the exception parse raised, None if it raised none
    parser,    \* the keyword sets of the ORCAParser instance
    first,     \* the text and the outcome of the first call made on the
               \* parser, None until a further call is made on it
    documents, \* the text of each document of the workspace, None if the
               \* document is not open
    events,    \* the number of open and change events handled, per document
    published, \* the lists of diagnostics published, per document, in order
    handler,   \* the document _validate_document is working on, or None
    request,   \* the last request made to the server, or None
    response,  \* the answer to the last request, or None
    iterations \* the number of iterations of the loop of parse begun in the
               \* call in progress

vars == <<pc, content, lines, i, result, exc, parser, first, documents,
          events, published, handler, request, response, iterations>>

\* the state of the server outside the parser
serverVars == <<documents, events, published, handler, request, response>>

\* the documents of the workspace
Uris == {"file:///a.inp", "file:///b.inp"}

\* ORCAParser(): the keyword sets of a new parser
NewParser ==
    [dft_functionals |-> Keys(DFT_FUNCTIONALS),
     wavefunction_methods |-> Keys(WAVEFUNCTION_METHODS),
     basis_sets |-> Keys(BASIS_SETS),
     job_types |-> Keys(JOB_TYPES),
     all_methods |-> Keys(DFT_FUNCTIONALS) \cup Keys(WAVEFUNCTION_METHODS)]

\* ParseResult()
EmptyResult ==
    [simple_input |-> None, percent_blocks |-> <<>>, geometry |-> None,
     errors |-> <<>>, warnings |-> <<>>]

Init ==
    /\ pc = "idle"
    /\ content = <<>>
    /\ lines = <<>>
    /\ i = 0
    /\ result = EmptyResult
    /\ exc = None
    /\ parser = NewParser
    /\ first = None
    /\ documents = [u \in Uris |-> None]
    /\ events = [u \in Uris |-> 0]
    /\ published = [u \in Uris |-> <<>>]
    /\ handler = None
    /\ request = None
    /\ response = None
    /\ iterations = 0

\* the line the loop is looking at, stripped
Stripped == Strip(Line(lines, i))

InLoop == pc = "scan" /\ i < Len(lines)

\* parse_simple_input(line, line_number): SimpleInput has no field
\* line_number, so constructing it raises TypeError before any token is read
ParseSimpleInput(line, line_number) == [raised |-> "TypeError"]

\* EnterParse, had parse gone on with the ParseResult of the call before
EnterParseKeepResult(text) ==
    /\ content' = text
    /\ lines' = SplitLines(text)
    /\ pc' = "scan"
    /\ i' = 0
    /\ result' = result
    /\ exc' = None
    /\ iterations' = 0

\* the first lines of parse(content): a new ParseResult, the lines of the
\* text, the line index 0
EnterParse(text) ==
    /\ content' = text
    /\ lines' = SplitLines(text)
    /\ pc' = "scan"
    /\ i' = 0
    /\ result' = EmptyResult
    /\ exc' = None
    /\ iterations' = 0

\* parse(content) is called with one of the texts in texts
ParseCall(texts) ==
    /\ pc = "idle"
    /\ handler = None
    /\ \E text \in texts : EnterParse(text)
    /\ UNCHANGED <<parser, first, serverVars>>

\* what a call of parse has given its caller: the exception it raised, or
\* the ParseResult it returned
Outcome == [exc |-> exc, result |-> IF pc = "raised" THEN EmptyResult ELSE result]

\* parse(content) is called again on the same parser, right after a call
\* has ended
ParseAgain(texts) ==
    /\ pc \in {"done", "raised"}
    /\ handler = None
    /\ first' = IF first = None
                THEN Some([content |-> content, outcome |-> Outcome])
                ELSE first
    /\ \E text \in texts : EnterParse(text)
    /\ UNCHANGED <<parser, serverVars>>

\* an empty line or a comment is skipped
SkipLine ==
    /\ InLoop
    /\ Len(Stripped) = 0 \/ StartsWith(Stripped, <<"#">>)
    /\ i' = i + 1
    /\ iterations' = iterations + 1
    /\ UNCHANGED <<pc, content, lines, result, exc, parser, first, serverVars>>

\* a line that starts with ! is handed to parse_simple_input, which raises
SimpleInputLine ==
    /\ InLoop
    /\ StartsWith(Stripped, <<"!">>)
    /\ pc' = "raised"
    /\ exc' = Some(ParseSimpleInput(Stripped, i).raised)
    /\ iterations' = iterations + 1
    /\ UNCHANGED <<content, lines, i, result, parser, first, serverVars>>

\* PercentLine, had it gone on at the end line of the block and not after it
PercentLineStay ==
    /\ InLoop
    /\ StartsWith(Stripped, <<"%">>)
    /\ LET p == ParsePercentBlock(lines, i)
       IN  IF Raised(p)
           THEN /\ pc' = "raised"
                /\ exc' = Some(p.raised)
                /\ UNCHANGED <<result, i>>
           ELSE /\ result' = [result EXCEPT !.percent_blocks = @ \o p.block]
                /\ i' = p.end_line
                /\ UNCHANGED <<pc, exc>>
    /\ iterations' = iterations + 1
    /\ UNCHANGED <<content, lines, parser, first, serverVars>>

\* a line that starts with % is handed to parse_percent_block, which returns
\* or raises
PercentLine ==
    /\ InLoop
    /\ StartsWith(Stripped, <<"%">>)
    /\ LET p == ParsePercentBlock(lines, i)
       IN  IF Raised(p)
           THEN /\ pc' = "raised"
                /\ exc' = Some(p.raised)
                /\ UNCHANGED <<result, i>>
           ELSE /\ result' = [result EXCEPT !.percent_blocks = @ \o p.block]
                /\ i' = p.end_line + 1
                /\ UNCHANGED <<pc, exc>>
    /\ iterations' = iterations + 1
    /\ UNCHANGED <<content, lines, parser, first, serverVars>>

\* GeometryLine, had it kept the first section it stored
GeometryLineKeepFirst ==
    /\ InLoop
    /\ StartsWith(Stripped, <<"*">>)
    /\ LET g == ParseGeometry(lines, i)
       IN  /\ result' = [result EXCEPT !.geometry = IF @ = None THEN g.geom ELSE @]
           /\ i' = g.end_line + 1
    /\ iterations' = iterations + 1
    /\ UNCHANGED <<pc, content, lines, exc, parser, first, serverVars>>

\* GeometryLine, had the scan gone on at the line after the header
GeometryLineRescan ==
    /\ InLoop
    /\ StartsWith(Stripped, <<"*">>)
    /\ LET g == ParseGeometry(lines, i)
       IN  /\ result' = [result EXCEPT !.geometry = IF g.geom # None THEN g.geom ELSE @]
           /\ i' = i + 1
    /\ iterations' = iterations + 1
    /\ UNCHANGED <<pc, content, lines, exc, parser, first, serverVars>>

\* a line that starts with * is handed to parse_geometry
GeometryLine ==
    /\ InLoop
    /\ StartsWith(Stripped, <<"*">>)
    /\ LET g == ParseGeometry(lines, i)
       IN  /\ result' = [result EXCEPT !.geometry = IF g.geom # None THEN g.geom ELSE @]
           /\ i' = g.end_line + 1
    /\ iterations' = iterations + 1
    /\ UNCHANGED <<pc, content, lines, exc, parser, first, serverVars>>

\* any other line is passed over
OtherLine ==
    /\ InLoop
    /\ Len(Stripped) > 0
    /\ Stripped[1] \notin {"#", "!", "%", "*"}
    /\ i' = i + 1
    /\ iterations' = iterations + 1
    /\ UNCHANGED <<pc, content, lines, result, exc, parser, first, serverVars>>

\* the loop is over: the diagnostics run and parse returns
Finish ==
    /\ pc = "scan"
    /\ i >= Len(lines)
    /\ result' = RunDiagnostics(result)
    /\ pc' = "done"
    /\ UNCHANGED <<content, lines, i, exc, parser, first, serverVars, iterations>>

\* _run_diagnostics called on a ParseResult built by the caller
RunDiagnosticsCall(results) ==
    /\ pc = "idle"
    /\ handler = None
    /\ \E r \in results : result' = RunDiagnostics(r)
    /\ pc' = "done"
    /\ UNCHANGED <<content, lines, i, exc, parser, first, serverVars, iterations>>

(***************************************************************************)
(* server.py: the document events and the code-action request              *)
(***************************************************************************)
\* Diagnostic(range=Range(Position(line, 0), Position(line, 100)), message,
\* severity, source="orca-lsp") for a finding
Diagnostic(finding, severity) ==
    [range |-> [start |-> [line |-> finding.line, character |-> 0],
                end |-> [line |-> finding.line, character |-> 100]],
     message |-> finding.message,
     severity |-> severity,
     source |-> "orca-lsp"]

\* the list _validate_document publishes for a ParseResult: the errors, then
\* the warnings
Diagnostics(r) ==
    [k \in 1..Len(r.errors) |-> Diagnostic(r.errors[k], "Error")]
    \o [k \in 1..Len(r.warnings) |-> Diagnostic(r.warnings[k], "Warning")]

\* the workspace stores the text, then _validate_document(uri) reads it and
\* calls parse on it
ValidateDocument(uri, text) ==
    /\ events[uri] + events[CHOOSE v \in Uris : v # uri] < MaxEvents
    /\ documents' = [documents EXCEPT ![uri] = Some(text)]
    /\ events' = [events EXCEPT ![uri] = @ + 1]
    /\ handler' = Some(uri)
    /\ EnterParse(text)
    /\ UNCHANGED <<parser, first, published, request, response>>

\* textDocument/didOpen
OnDidOpen(texts) ==
    /\ pc = "idle"
    /\ handler = None
    /\ request = None
    /\ \E uri \in Uris, text \in texts :
          documents[uri] = None /\ ValidateDocument(uri, text)

\* textDocument/didChange
OnDidChange(texts) ==
    /\ pc = "idle"
    /\ handler = None
    /\ request = None
    /\ \E uri \in Uris, text \in texts :
          documents[uri] # None /\ ValidateDocument(uri, text)

\* parse has returned to _validate_document: the diagnostics are published
Publish ==
    /\ pc = "done"
    /\ handler # None
    /\ published' = [published EXCEPT ![handler[1]] = Append(@, Diagnostics(result))]
    /\ handler' = None
    /\ pc' = "idle"
    /\ content' = <<>>
    /\ lines' = <<>>
    /\ i' = 0
    /\ result' = EmptyResult
    /\ exc' = None
    /\ iterations' = 0
    /\ UNCHANGED <<parser, first, documents, events, request, response>>

\* parse has raised: the exception leaves _validate_document and the event
\* handler, nothing is published
ValidateRaises ==
    /\ pc = "raised"
    /\ handler # None
    /\ handler' = None
    /\ pc' = "idle"
    /\ content' = <<>>
    /\ lines' = <<>>
    /\ i' = 0
    /\ result' = EmptyResult
    /\ exc' = None
    /\ iterations' = 0
    /\ UNCHANGED <<parser, first, documents, events, published, request, response>>

\* "Missing %maxcore"
S_MissingMaxcore == <<"M", "i", "s", "s", "i", "n", "g", " ", "%", "m", "a", "x", "c", "o", "r", "e">>

\* the quick fix of _on_code_action for the document uri
QuickFix(uri) ==
    [title |-> "Add %maxcore 4000",
     kind |-> "quickfix",
     edit |-> [changes |->
                 (uri :> <<[range |-> [start |-> [line |-> 1, character |-> 0],
                                       end |-> [line |-> 1, character |-> 0]],
                            new_text |-> <<"%", "m", "a", "x", "c", "o", "r", "e", " ", "4", "0", "0", "0", "\n">>]>>)]]

\* the quick fixes for the diagnostics k .. last
RECURSIVE CodeActionsFrom(_, _, _)
CodeActionsFrom(uri, diagnostics, k) ==
    IF k > Len(diagnostics) THEN <<>>
    ELSE (IF Contains(MessageChars(diagnostics[k].message), S_MissingMaxcore)
          THEN <<QuickFix(uri)>> ELSE <<>>)
         \o CodeActionsFrom(uri, diagnostics, k + 1)

\* OnCodeAction, had it offered the fix for every diagnostic
OnCodeActionForAll(uri, diagnostics) ==
    [k \in 1..Len(diagnostics) |-> QuickFix(uri)]

\* _on_code_action(params): the list of code actions
OnCodeAction(uri, diagnostics) == CodeActionsFrom(uri, diagnostics, 1)

\* textDocument/codeAction
CodeActionRequest(lists) ==
    /\ pc = "idle"
    /\ handler = None
    /\ request = None
    /\ \E uri \in Uris, diagnostics \in lists :
          /\ request' = Some([method |-> "textDocument/codeAction", uri |-> uri,
                               diagnostics |-> diagnostics])
          /\ response' = Some(OnCodeAction(uri, diagnostics))
    /\ UNCHANGED <<pc, content, lines, i, result, exc, parser, first, iterations,
                   documents, events, published, handler>>

\* the response is sent to the client
Reply ==
    /\ request # None
    /\ request' = None
    /\ response' = None
    /\ UNCHANGED <<pc, content, lines, i, result, exc, parser, first, iterations,
                   documents, events, published, handler>>

(***************************************************************************)
(* server.py: completion and the word under the cursor                     *)
(***************************************************************************)
\* a character of [A-Z] and one of [a-z]
IsAsciiUpper(c) ==
    c \in {"A", "B", "C", "D", "E", "F", "G", "H", "I", "J", "K", "L", "M",
           "N", "O", "P", "Q", "R", "S", "T", "U", "V", "W", "X", "Y", "Z"}
IsAsciiLower(c) ==
    c \in {"a", "b", "c", "d", "e", "f", "g", "h", "i", "j", "k", "l", "m",
           "n", "o", "p", "q", "r", "s", "t", "u", "v", "w", "x", "y", "z"}

\* the code points of the letters of the element symbols
CodePoint ==
    ("A" :> 65) @@ ("B" :> 66) @@ ("C" :> 67) @@ ("D" :> 68) @@ ("E" :> 69) @@
    ("F" :> 70) @@ ("G" :> 71) @@ ("H" :> 72) @@ ("I" :> 73) @@ ("J" :> 74) @@
    ("K" :> 75) @@ ("L" :> 76) @@ ("M" :> 77) @@ ("N" :> 78) @@ ("O" :> 79) @@
    ("P" :> 80) @@ ("Q" :> 81) @@ ("R" :> 82) @@ ("S" :> 83) @@ ("T" :> 84) @@
    ("U" :> 85) @@ ("V" :> 86) @@ ("W" :> 87) @@ ("X" :> 88) @@ ("Y" :> 89) @@
    ("Z" :> 90) @@
    ("a" :> 97) @@ ("b" :> 98) @@ ("c" :> 99) @@ ("d" :> 100) @@ ("e" :> 101) @@
    ("f" :> 102) @@ ("g" :> 103) @@ ("h" :> 104) @@ ("i" :> 105) @@ ("j" :> 106) @@
    ("k" :> 107) @@ ("l" :> 108) @@ ("m" :> 109) @@ ("n" :> 110) @@ ("o" :> 111) @@
    ("p" :> 112) @@ ("q" :> 113) @@ ("r" :> 114) @@ ("s" :> 115) @@ ("t" :> 116) @@
    ("u" :> 117) @@ ("v" :> 118) @@ ("w" :> 119) @@ ("x" :> 120) @@ ("y" :> 121) @@
    ("z" :> 122)

\* a < b for strings, as sorted() compares them
RECURSIVE StrLess(_, _)
StrLess(a, b) ==
    IF Len(b) = 0 THEN FALSE
    ELSE IF Len(a) = 0 THEN TRUE
    ELSE IF a[1] # b[1] THEN CodePoint[a[1]] < CodePoint[b[1]]
    ELSE StrLess(Tail(a), Tail(b))

\* sorted(S) for a set of strings
RECURSIVE Sorted(_)
Sorted(S) ==
    IF S = {} THEN <<>>
    ELSE LET m == CHOOSE x \in S : \A y \in S \ {x} : StrLess(x, y)
         IN  <<m>> \o Sorted(S \ {m})

\* info.get(key, default)
Get(info, key, default) == IF key \in DOMAIN info THEN info[key] ELSE default

\* CompletionItem(label, kind, detail, documentation, insert_text): a text
\* made by an f-string is its literal part and the interpolated value
CompletionItem(label, kind, detail, documentation, insert_text) ==
    [label |-> label, kind |-> kind, detail |-> detail,
     documentation |-> documentation, insert_text |-> insert_text]

Text(literal, value) == Some([text |-> literal, arg |-> value])

\* the items for the values of a block, each inserted as it is
ValueItems(values) ==
    [k \in 1..Len(values) |->
        CompletionItem(values[k], "Value", None, None, Some(values[k]))]

\* the items for the options of a block, each inserted with a blank after it
PropertyItems(options) ==
    [k \in 1..Len(options) |->
        CompletionItem(options[k], "Property", None, None, Some(options[k] \o <<" ">>))]

MaxcoreValues == <<<<"1", "0", "0", "0">>, <<"2", "0", "0", "0">>, <<"4", "0", "0", "0">>, <<"8", "0", "0", "0">>, <<"1", "6", "0", "0", "0">>>>

\* _get_block_specific_completions(block_name)
GetBlockSpecificCompletions(block_name) ==
    IF block_name = S_maxcore
    THEN [k \in 1..Len(MaxcoreValues) |->
            CompletionItem(MaxcoreValues[k] \o <<" ", "M", "B">>, "Value", None, None,
                           Some(MaxcoreValues[k]))]
    ELSE IF block_name = S_pal THEN PropertyItems(<<S_nprocs>>)
    ELSE IF block_name = S_method THEN ValueItems(<<<<"D", "3">>, <<"D", "3", "B", "J">>, <<"D", "4">>>>)
    ELSE IF block_name = S_scf THEN PropertyItems(<<<<"m", "a", "x", "i", "t", "e", "r">>, <<"c", "o", "n", "v", "e", "r", "g", "e", "n", "c", "e">>, <<"N", "R", "M", "a", "x", "I", "t">>>>)
    ELSE <<>>

\* re.match(r'%\s*(\w*)$', line): % then whitespace then word characters up
\* to the end, or up to a line feed that ends the line
MatchNameBeingTyped(line) ==
    /\ Len(line) >= 1
    /\ line[1] = "%"
    /\ LET b == FirstNonWord(line, FirstNonSpace(line, 2))
       IN  b > Len(line) \/ (b = Len(line) /\ line[b] = "\n")

\* the item of each block name of the registry
BlockNameItems ==
    [k \in 1..Len(PERCENT_BLOCKS) |->
        CompletionItem(PERCENT_BLOCKS[k].name, "Keyword",
                       Text("", <<Get(PERCENT_BLOCKS[k], "description", "")>>),
                       Text("Example: ", <<Get(PERCENT_BLOCKS[k], "example", "")>>),
                       Some(PERCENT_BLOCKS[k].name \o <<" ">>))]

\* the items of the blocks k .. last whose name follows a % in the line
RECURSIVE BlocksInLineFrom(_, _)
BlocksInLineFrom(line, k) ==
    IF k > Len(PERCENT_BLOCKS) THEN <<>>
    ELSE (IF Contains(Lower(line), <<"%">> \o PERCENT_BLOCKS[k].name)
          THEN GetBlockSpecificCompletions(PERCENT_BLOCKS[k].name) ELSE <<>>)
         \o BlocksInLineFrom(line, k + 1)

\* GetPercentCompletions, had it offered the block names for every line
GetPercentCompletionsAlways(line) == BlockNameItems \o BlocksInLineFrom(line, 1)

\* _get_percent_completions(line)
GetPercentCompletions(line) ==
    (IF MatchNameBeingTyped(line) THEN BlockNameItems ELSE <<>>)
    \o BlocksInLineFrom(line, 1)

\* _get_method_completions()
GetMethodCompletions ==
    [k \in 1..Len(DFT_FUNCTIONALS) |->
        CompletionItem(DFT_FUNCTIONALS[k].name, "Function",
                       Text("DFT: ", <<Get(DFT_FUNCTIONALS[k], "type", "")>>),
                       Text("", <<Get(DFT_FUNCTIONALS[k], "description", "")>>), None)]
    \o [k \in 1..Len(WAVEFUNCTION_METHODS) |->
        CompletionItem(WAVEFUNCTION_METHODS[k].name, "Method",
                       Text("Wavefunction method", <<>>),
                       Text("", <<Get(WAVEFUNCTION_METHODS[k], "description", "")>>), None)]

\* _get_basis_completions()
GetBasisCompletions ==
    [k \in 1..Len(BASIS_SETS) |->
        CompletionItem(BASIS_SETS[k].name, "Class",
                       Text("", <<Get(BASIS_SETS[k], "type", "")>>),
                       Text("", <<Get(BASIS_SETS[k], "description", "")>>), None)]

\* _get_job_completions()
GetJobCompletions ==
    [k \in 1..Len(JOB_TYPES) |->
        CompletionItem(JOB_TYPES[k].name, "Event", Text("Job type", <<>>),
                       Text("", <<Get(JOB_TYPES[k], "description", "")>>), None)]

\* sorted(ELEMENTS)
SortedElements == Sorted(ELEMENTS)

\* _get_element_completions()
GetElementCompletions ==
    [k \in 1..Len(SortedElements) |->
        CompletionItem(SortedElements[k], "EnumMember",
                       Text("Element ", SortedElements[k]), None, None)]

\* _in_geometry_section(line): re.match(r'^[A-Z][a-z]?\s+[-\d\.]', line.strip())
InGeometrySection(line) ==
    LET st == Strip(line)
        a == IF Len(st) >= 2 /\ IsAsciiLower(st[2]) THEN 3 ELSE 2
        b == FirstNonSpace(st, a)
    IN  /\ Len(st) >= 1
        /\ IsAsciiUpper(st[1])
        /\ b > a
        /\ b <= Len(st)
        /\ (IsDigit(st[b]) \/ st[b] \in {"-", "."})

\* GetCompletions, had it looked for the shape of an atom line in the text
\* before the cursor only
GetCompletionsOnPrefix(line, character) ==
    LET stripped == Strip(SubSeq(line, 1, IF character < Len(line) THEN character ELSE Len(line)))
    IN  IF StartsWith(stripped, <<"%">>) THEN GetPercentCompletions(stripped)
        ELSE IF StartsWith(stripped, <<"!">>)
        THEN GetMethodCompletions \o GetBasisCompletions \o GetJobCompletions
        ELSE IF InGeometrySection(stripped) THEN GetElementCompletions
        ELSE <<>>

\* _get_completions(line, position)
GetCompletions(line, character) ==
    LET stripped == Strip(SubSeq(line, 1, IF character < Len(line) THEN character ELSE Len(line)))
    IN  IF StartsWith(stripped, <<"%">>) THEN GetPercentCompletions(stripped)
        ELSE IF StartsWith(stripped, <<"!">>)
        THEN GetMethodCompletions \o GetBasisCompletions \o GetJobCompletions
        ELSE IF InGeometrySection(line) THEN GetElementCompletions
        ELSE <<>>

\* the least start from which the characters up to the column are alphanumeric
RECURSIVE WordStart(_, _)
WordStart(line, start) ==
    IF start > 0 /\ IsAlnum(line[start]) THEN WordStart(line, start - 1) ELSE start

\* the end of the run of alphanumeric characters from the column on
RECURSIVE WordEnd(_, _)
WordEnd(line, end) ==
    IF end < Len(line) /\ IsAlnum(line[end + 1]) THEN WordEnd(line, end + 1) ELSE end

\* _get_word_at_position(document, position): the word, or the exception
\* raised by reading a line or a character that is not there
GetWordAtPosition(doc_lines, line_index, character) ==
    IF line_index >= Len(doc_lines) THEN [raised |-> "IndexError"]
    ELSE LET line == doc_lines[line_index + 1]
         IN  IF character > Len(line) THEN [raised |-> "IndexError"]
             ELSE [word |-> SubSeq(line, WordStart(line, character) + 1,
                                   WordEnd(line, character))]

\* _on_completion, for a line of the document and a column: the answer is
\* CompletionList(is_incomplete=False, items=completions)
CompletionRequest(query_lines) ==
    /\ pc = "idle"
    /\ handler = None
    /\ request = None
    /\ \E line \in query_lines : \E character \in 0..(Len(line) + MaxBeyond) :
          /\ request' = Some([method |-> "textDocument/completion", line |-> line,
                               character |-> character])
          /\ response' = Some([is_incomplete |-> FALSE,
                                items |-> GetCompletions(line, character)])
    /\ UNCHANGED <<pc, content, lines, i, result, exc, parser, first, iterations,
                   documents, events, published, handler>>

\* the word under the cursor is asked for, as hover does
WordRequest(query_lines) ==
    /\ pc = "idle"
    /\ handler = None
    /\ request = None
    /\ \E line \in query_lines : \E character \in 0..(Len(line) + MaxBeyond) :
          /\ request' = Some([method |-> "word", line |-> line, character |-> character])
          /\ response' = Some(GetWordAtPosition(<<line>>, 0, character))
    /\ UNCHANGED <<pc, content, lines, i, result, exc, parser, first, iterations,
                   documents, events, published, handler>>

\* str.upper(), a character at a time
UpperChar(c) == IF c \in DOMAIN UpperOf THEN UpperOf[c] ELSE <<c>>

RECURSIVE Upper(_)
Upper(s) ==
    IF Len(s) = 0 THEN <<>>
    ELSE IF Len(s) = 1 THEN UpperChar(s[1])
    ELSE Upper(SubSeq(s, 1, Len(s) \div 2)) \o Upper(SubSeq(s, Len(s) \div 2 + 1, Len(s)))

\* table[key] of a registry, None when the key is not in it
Info(table, key) ==
    LET ks == {k \in 1..Len(table) : table[k].name = key}
    IN  IF ks = {} THEN None ELSE Some(table[CHOOSE k \in ks : TRUE])

\* Hover(contents=MarkupContent(kind=Markdown, value=...)): the value is
\* "**word**\n\ndescription", followed by "\n\nType: type" when a type is given
Hover(word, description, type) ==
    [kind |-> "markdown", word |-> word, description |-> description, type |-> type]

\* _on_hover(params) for a document and a position: the word under the
\* cursor in upper case is looked up in the functionals, the wavefunction
\* methods, the basis sets and the job types, in that order
OnHover(doc_lines, line_index, character) ==
    LET got == GetWordAtPosition(doc_lines, line_index, character)
        word == got.word
        word_upper == Upper(word)
        dft == Info(DFT_FUNCTIONALS, word_upper)
        wf == Info(WAVEFUNCTION_METHODS, word_upper)
        basis == Info(BASIS_SETS, word_upper)
        job == Info(JOB_TYPES, word_upper)
    IN  IF "raised" \in DOMAIN got THEN got
        ELSE IF word = <<>> THEN [hover |-> None]
        ELSE IF dft # None
        THEN [hover |-> Some(Hover(word, Get(dft[1], "description", ""),
                                   Some(Get(dft[1], "type", "N/A"))))]
        ELSE IF wf # None
        THEN [hover |-> Some(Hover(word, Get(wf[1], "description", ""), None))]
        ELSE IF basis # None
        THEN [hover |-> Some(Hover(word, Get(basis[1], "description", ""),
                                   Some(Get(basis[1], "type", "N/A"))))]
        ELSE IF job # None
        THEN [hover |-> Some(Hover(word, Get(job[1], "description", ""), None))]
        ELSE [hover |-> None]

\* a hover request for a line of the document and a column
HoverRequest(query_lines) ==
    /\ pc = "idle"
    /\ handler = None
    /\ request = None
    /\ \E line \in query_lines : \E character \in 0..(Len(line) + MaxBeyond) :
          /\ request' = Some([method |-> "textDocument/hover", line |-> line,
                               character |-> character])
          /\ response' = Some(OnHover(<<line>>, 0, character))
    /\ UNCHANGED <<pc, content, lines, i, result, exc, parser, first, iterations,
                   documents, events, published, handler>>

\* the caller drops the outcome of the call
Return ==
    /\ pc \in {"done", "raised"}
    /\ handler = None
    /\ pc' = "idle"
    /\ content' = <<>>
    /\ lines' = <<>>
    /\ i' = 0
    /\ result' = EmptyResult
    /\ exc' = None
    /\ iterations' = 0
    /\ UNCHANGED <<parser, first, serverVars>>

(***************************************************************************)
(* The lines the documents of the model are made of                        *)
(***************************************************************************)
\* the line ''
L_blank == <<>>

\* the line '# job'
L_comment == <<"#", " ", "j", "o", "b">>

\* the line '! B3LYP def2-TZVP'
L_simple == <<"!", " ", "B", "3", "L", "Y", "P", " ", "d", "e", "f", "2", "-", "T", "Z", "V", "P">>

\* the line '! b3lyp DEF2-tzvp'
L_simpleLower == <<"!", " ", "b", "3", "l", "y", "p", " ", "D", "E", "F", "2", "-", "t", "z", "v", "p">>

\* the line '%maxcore 4000'
L_maxcore4000 == <<"%", "m", "a", "x", "c", "o", "r", "e", " ", "4", "0", "0", "0">>

\* the line '%maxcore 5'
L_maxcore5 == <<"%", "m", "a", "x", "c", "o", "r", "e", " ", "5">>

\* the line '%pal nprocs 2 end'
L_palInline == <<"%", "p", "a", "l", " ", "n", "p", "r", "o", "c", "s", " ", "2", " ", "e", "n", "d">>

\* the line '%pal'
L_pal == <<"%", "p", "a", "l">>

\* the line '  nprocs 4'
L_nprocs4 == <<" ", " ", "n", "p", "r", "o", "c", "s", " ", "4">>

\* the line '  nprocs 16'
L_nprocs16 == <<" ", " ", "n", "p", "r", "o", "c", "s", " ", "1", "6">>

\* the line 'end'
L_end == <<"e", "n", "d">>

\* the line '* xyz 0 1'
L_header01 == <<"*", " ", "x", "y", "z", " ", "0", " ", "1">>

\* the line '* xyz -1 2'
L_headerM12 == <<"*", " ", "x", "y", "z", " ", "-", "1", " ", "2">>

\* the line 'H 0 0 0'
L_atomH == <<"H", " ", "0", " ", "0", " ", "0">>

\* the line '  O  0.0  1.5  -2'
L_atomO == <<" ", " ", "O", " ", " ", "0", ".", "0", " ", " ", "1", ".", "5", " ", " ", "-", "2">>

\* the line 'Xx 0 0 0'
L_atomXx == <<"X", "x", " ", "0", " ", "0", " ", "0">>

\* the line 'h 0 0 0'
L_atomh == <<"h", " ", "0", " ", "0", " ", "0">>

\* the line '*'
L_star == <<"*">>

\* the line '%method'
L_method == <<"%", "m", "e", "t", "h", "o", "d">>

\* the line '  d3bj'
L_d3bj == <<" ", " ", "d", "3", "b", "j">>

\* the line '  D3BJ'
L_D3BJ == <<" ", " ", "D", "3", "B", "J">>

\* the line '  d3'
L_d3 == <<" ", " ", "d", "3">>

\* the line '%method D3BJ end'
L_methodInline == <<"%", "m", "e", "t", "h", "o", "d", " ", "D", "3", "B", "J", " ", "e", "n", "d">>
\* the line '! def2-TZVP'
L_simpleNoMethod == <<"!", " ", "d", "e", "f", "2", "-", "T", "Z", "V", "P">>

\* the line '! B3LYP'
L_simpleNoBasis == <<"!", " ", "B", "3", "L", "Y", "P">>

\* the line '* xyz x 1'
L_headerBadCharge == <<"*", " ", "x", "y", "z", " ", "x", " ", "1">>

\* the line '* xyz 2 x'
L_headerBadMult == <<"*", " ", "x", "y", "z", " ", "2", " ", "x">>

\* the line 'H 0 0 x'
L_atomBadZ == <<"H", " ", "0", " ", "0", " ", "x">>

\* the line 'C 1e1 -.5 2. extra'
L_atomC5 == <<"C", " ", "1", "e", "1", " ", "-", ".", "5", " ", "2", ".", " ", "e", "x", "t", "r", "a">>

\* the line '%maxcore abc'
L_maxcoreBad == <<"%", "m", "a", "x", "c", "o", "r", "e", " ", "a", "b", "c">>

\* a numeral of one digit more than int() reads: zeros, then 4000
LongNumeral == [k \in 1..(IntMaxStrDigits - 3) |-> "0"] \o <<"4", "0", "0", "0">>

L_nprocsLong == <<" ", " ", "n", "p", "r", "o", "c", "s", " ">> \o LongNumeral

L_headerLong == <<"*", " ", "x", "y", "z", " ">> \o LongNumeral \o <<" ", "2">>

\* the texts of at most MaxLines lines, each line taken from corpus
TextsOver(corpus) ==
    {JoinLines(d) : d \in UNION {[1..n -> corpus] : n \in 0..MaxLines}}

\* one step of the loop of parse, or its end
ParseStep ==
    \/ SkipLine
    \/ SimpleInputLine
    \/ PercentLine
    \/ GeometryLine
    \/ OtherLine
    \/ Finish
    \/ Return

CorpusMain ==
    {L_blank, L_comment, L_simple, L_simpleLower, L_maxcore4000, L_palInline,
     L_header01, L_atomH, L_star}

CorpusBlocks ==
    {L_blank, L_simple, L_maxcore4000, L_maxcore5, L_maxcoreBad, L_pal,
     L_nprocs4, L_nprocs16, L_end, L_star}

CorpusMethod ==
    {L_blank, L_simple, L_method, L_d3bj, L_D3BJ, L_d3, L_end,
     L_methodInline, L_star}

CorpusGeometry ==
    {L_blank, L_simple, L_palInline, L_header01, L_headerM12, L_atomH,
     L_atomO, L_atomXx, L_atomh, L_star}

CorpusEdge ==
    {L_blank, L_simpleNoMethod, L_simpleNoBasis, L_palInline,
     L_headerBadCharge, L_headerBadMult, L_atomH, L_atomBadZ, L_atomC5, L_star}

CorpusRepeat == {L_blank, L_simple, L_maxcore4000, L_header01, L_atomXx}

CorpusLimit ==
    {L_blank, L_simple, L_pal, L_nprocsLong, L_end, L_headerLong, L_atomH, L_star}

\* the texts of at most MaxLimitLines lines that hold the long numeral
LimitTexts ==
    {JoinLines(d) : d \in UNION {[1..n -> CorpusLimit] : n \in 0..MaxLimitLines}}

\* the texts a parser that is called repeatedly is given
RepeatTexts ==
    {JoinLines(d) : d \in UNION {[1..n -> CorpusRepeat] : n \in 0..MaxRepeatLines}}

\* the parser on documents that mix every kind of line
Next == ParseCall(TextsOver(CorpusMain)) \/ ParseStep

Spec == Init /\ [][Next]_vars

\* the parser on documents of maxcore and pal blocks
NextBlocks == ParseCall(TextsOver(CorpusBlocks)) \/ ParseStep

SpecBlocks == Init /\ [][NextBlocks]_vars

\* the parser on documents of method blocks
NextMethod == ParseCall(TextsOver(CorpusMethod)) \/ ParseStep

SpecMethod == Init /\ [][NextMethod]_vars

\* the parser on documents of geometry sections
NextGeometry == ParseCall(TextsOver(CorpusGeometry)) \/ ParseStep

SpecGeometry == Init /\ [][NextGeometry]_vars

\* the parser on documents with directives and headers that lack a part
NextEdge == ParseCall(TextsOver(CorpusEdge)) \/ ParseStep

SpecEdge == Init /\ [][NextEdge]_vars

\* the parser on documents with a numeral of more digits than int() reads
NextLimit == ParseCall(LimitTexts) \/ ParseStep

SpecLimit == Init /\ [][NextLimit]_vars

\* SimpleInput(methods=..., basis_sets=...)
SimpleInput(methods, basis_sets) ==
    [methods |-> methods, basis_sets |-> basis_sets, job_types |-> <<>>,
     other_keywords |-> <<>>, raw |-> <<>>]

\* Atom(element, 0.0, 0.0, 0.0, line_number)
AtomAt(element, line_number) ==
    [element |-> element, x |-> [num |-> "0", den |-> "1"], y |-> [num |-> "0", den |-> "1"],
     z |-> [num |-> "0", den |-> "1"], line_number |-> line_number]

\* the atom lists of at most MaxAtoms atoms, the atom k on the line k
AtomLists ==
    UNION {{[k \in 1..n |-> AtomAt(f[k], k)] : f \in [1..n -> {<<"H">>, <<"X", "x">>, <<"h">>}]}
           : n \in 0..MaxAtoms}

\* the ParseResults _run_diagnostics is called on: with or without a simple
\* input, a geometry and a block
DiagnosticInputs ==
    {[simple_input |-> s, percent_blocks |-> b, geometry |-> g,
      errors |-> <<>>, warnings |-> <<>>] :
        s \in {None} \cup {Some(SimpleInput(m, bs)) :
                              m \in {<<>>, <<<<"B", "3", "L", "Y", "P">>>>},
                              bs \in {<<>>, <<<<"d", "e", "f", "2", "-", "T", "Z", "V", "P">>>>}},
        b \in {<<>>, <<ParsePercentBlock(<<L_maxcore4000>>, 0).block[1]>>,
                <<ParsePercentBlock(<<L_palInline>>, 0).block[1]>>},
        g \in {None} \cup {Some([charge |-> 0, multiplicity |-> 1, atoms |-> a,
                                  format_type |-> S_xyz, line_start |-> 0,
                                  line_end |-> 0]) : a \in AtomLists}}

\* _run_diagnostics on its own
NextDiagnostics == RunDiagnosticsCall(DiagnosticInputs) \/ Return

SpecDiagnostics == Init /\ [][NextDiagnostics]_vars

\* the texts the documents of the server take
ServerTexts ==
    {<<>>,
     L_simple,
     JoinLines(<<L_palInline, L_header01, L_atomXx, L_star>>),
     JoinLines(<<L_maxcore4000, L_atomH>>),
     JoinLines(<<L_palInline, L_atomH, L_headerM12, L_atomH, L_star>>)}

\* a diagnostic as a client writes it, with the message given in full
ClientDiagnostic(message, line) ==
    Diagnostic(Finding("", message, line, "warning"), "Warning")

\* the diagnostics a code-action request may carry: two of the server's and
\* two of another source
DiagnosticPool ==
    {Diagnostic(Finding(MsgMissingMaxcore, <<>>, 0, "warning"), "Warning"),
     Diagnostic(Finding(MsgMissingGeometry, <<>>, 0, "error"), "Error"),
     ClientDiagnostic(<<"n", "o", "t", "e", ":", " ", "M", "i", "s", "s", "i", "n", "g", " ", "%", "m", "a", "x", "c", "o", "r", "e">>, 3),
     ClientDiagnostic(<<"m", "i", "s", "s", "i", "n", "g", " ", "%", "m", "a", "x", "c", "o", "r", "e", " ", "s", "e", "t", "t", "i", "n", "g">>, 0)}

\* the lists of at most MaxDiagnostics diagnostics
DiagnosticLists == UNION {[1..n -> DiagnosticPool] : n \in 0..MaxDiagnostics}

\* the server handling document events and code-action requests
NextServer ==
    \/ OnDidOpen(ServerTexts)
    \/ OnDidChange(ServerTexts)
    \/ SkipLine
    \/ SimpleInputLine
    \/ PercentLine
    \/ GeometryLine
    \/ OtherLine
    \/ Finish
    \/ Publish
    \/ ValidateRaises
    \/ CodeActionRequest(DiagnosticLists)
    \/ Reply

SpecServer == Init /\ [][NextServer]_vars

\* the lines the requests are made on
QueryLines ==
    {<<>>,
     <<" ", " ", " ">>,
     <<"h", "e", "l", "l", "o", " ", "w", "o", "r", "l", "d">>,
     <<"!", " ", "B", "3", "L", "Y", "P", " ", "d", "e", "f", "2", "-", "T", "Z", "V", "P", " ", "O", "P", "T">>,
     <<"%">>,
     <<"%", " ", "p", "a", "l">>,
     <<"%", "m", "a", "x", "c", "o", "r", "e">>,
     <<"%", "p", "a", "l", " ", "n", "p", "r", "o", "c", "s">>,
     <<" ", " ", "%", "M", "E", "T", "H", "O", "D", " ", "d">>,
     <<"%", "s", "c", "f", " ", "%", "p", "a", "l", " ", "x">>,
     <<"%", "g", "e", "o", "m">>,
     <<"H", " ", "0", " ", "0", " ", "0">>,
     <<"F", "e", " ", " ", "-", "1", ".", "5">>,
     <<"h", " ", "0", " ", "0", " ", "0">>,
     <<"M", "P", "2", " ", "x">>,
     <<"M", "0", "6", "-", "2", "X", " ", "r", "e", "v", "P", "B", "E">>,
     <<" ", " ", "C", "C", "S", "D", "(", "T", ")", " ", "o", "p", "t">>,
     <<"X", "x", "\t", ".", "5">>,
     <<" ", "C", " ", " ", "x">>}

\* the completion service and the word under the cursor, request by request
NextQuery ==
    \/ CompletionRequest(QueryLines)
    \/ WordRequest(QueryLines)
    \/ HoverRequest(QueryLines)
    \/ Reply

SpecQuery == Init /\ [][NextQuery]_vars

\* one parser called again and again
NextRepeat ==
    \/ ParseCall(RepeatTexts)
    \/ ParseAgain(RepeatTexts)
    \/ SkipLine
    \/ SimpleInputLine
    \/ PercentLine
    \/ GeometryLine
    \/ OtherLine
    \/ Finish

SpecRepeat == Init /\ [][NextRepeat]_vars

TypeOK == pc \in {"idle", "scan", "done", "raised"}

(***************************************************************************)
(* Properties                                                              *)
(***************************************************************************)
\* parse has returned, or raised
Ended == pc \in {"done", "raised"}

\* the loop of parse has started on the lines
Scanning == pc \in {"scan", "done"}

\* the lines s, s+1, ... (0-based) of the document are the lines of ls
LinesAt(s, ls) ==
    /\ s + Len(ls) <= Len(lines)
    /\ \A k \in 1..Len(ls) : Line(lines, s + k - 1) = ls[k]

\* the settings blocks of the result that start at line s
BlocksAt(s) ==
    {result.percent_blocks[k] : k \in
        {j \in 1..Len(result.percent_blocks) : result.percent_blocks[j].line_start = s}}

\* C1: for every input text, texts with lines that start with ! included,
\* parse returns a ParseResult and never raises an exception.
C1_ParseNeverRaises == pc # "raised" /\ exc = None

\* C2: for a line "! <M> <B>" with the method and the basis set written in
\* any letter case, the directive lists the registry's spelling of <M> among
\* its methods and the registry's spelling of <B> among its basis sets.
C2_CanonicalSpelling ==
    (Ended /\ Line(lines, 0) \in {L_simple, L_simpleLower}) =>
        /\ pc = "done"
        /\ result.simple_input # None
        /\ \E k \in 1..Len(result.simple_input[1].methods) :
             result.simple_input[1].methods[k] = <<"B", "3", "L", "Y", "P">>
        /\ \E k \in 1..Len(result.simple_input[1].basis_sets) :
             result.simple_input[1].basis_sets[k] =
                 <<"d", "e", "f", "2", "-", "T", "Z", "V", "P">>

\* C3: parsing the empty text yields no directive, no geometry, no settings
\* block and exactly two errors, missing simple input then missing geometry,
\* both at line 0.
C3_EmptyText ==
    (Ended /\ content = <<>>) =>
        /\ pc = "done"
        /\ result.simple_input = None
        /\ result.geometry = None
        /\ result.percent_blocks = <<>>
        /\ result.errors =
             <<[message |-> [text |-> MsgMissingSimpleInput, arg |-> <<>>],
                line |-> 0, severity |-> "error"],
               [message |-> [text |-> MsgMissingGeometry, arg |-> <<>>],
                line |-> 0, severity |-> "error"]>>

C3_Witness == pc = "done" /\ content = <<>> /\ Len(result.errors) = 2

\* C4: a %maxcore line followed by single-line % blocks and then a geometry
\* section yields one settings block per % line, in document order, and the
\* geometry section after them is captured.
C4_BlockPerOpener ==
    (pc = "done" /\ LinesAt(0, <<L_maxcore4000, L_palInline, L_header01>>)) =>
        /\ Len(result.percent_blocks) = 2
        /\ result.percent_blocks[1].name = S_maxcore
        /\ result.percent_blocks[1].line_start = 0
        /\ result.percent_blocks[2].name = S_pal
        /\ result.percent_blocks[2].line_start = 1
        /\ result.geometry # None
        /\ result.geometry[1].line_start = 2

\* the N of the lines "%maxcore N" of the documents
MaxcoreOf == (L_maxcore4000 :> 4000) @@ (L_maxcore5 :> 5)

\* C5: the settings block that a document line "%maxcore N" opens has the
\* name maxcore and the parameter memory = N.
C5_MaxcoreMemory ==
    Scanning =>
        \A k \in 1..Len(result.percent_blocks) :
            LET b == result.percent_blocks[k]
                opener == Line(lines, b.line_start)
            IN  opener \in DOMAIN MaxcoreOf =>
                    /\ b.name = S_maxcore
                    /\ "memory" \in DOMAIN b.parameters
                    /\ b.parameters["memory"] = MaxcoreOf[opener]

\* the N of the lines "  nprocs N" of the documents
NprocsOf == (L_nprocs4 :> 4) @@ (L_nprocs16 :> 16) @@ (L_nprocsLong :> 4000)

\* the loop is at line s, where a block %pal / nprocs N / end starts
AtPalBlock(s, n) ==
    /\ InLoop
    /\ i = s
    /\ \E l \in DOMAIN NprocsOf : NprocsOf[l] = n /\ LinesAt(s, <<L_pal, l, L_end>>)

\* C6: a multi-line block %pal / nprocs N / end that starts at line s gets
\* nprocs = N and the ending line s+2, the line of its end, and the scan
\* resumes at line s+3.
C6_PalBlock ==
    [][\A s \in 0..MaxLines, n \in {4, 16, 4000} :
         AtPalBlock(s, n) =>
            /\ i' = s + 3
            /\ Len(result'.percent_blocks) = Len(result.percent_blocks) + 1
            /\ LET b == result'.percent_blocks[Len(result'.percent_blocks)]
               IN  /\ b.name = S_pal
                   /\ b.line_start = s
                   /\ b.line_end = s + 2
                   /\ "nprocs" \in DOMAIN b.parameters
                   /\ b.parameters["nprocs"] = n
            /\ ParsePercentBlock(lines, s).end_line = s + 2]_vars

\* charge and multiplicity written in the header lines of the documents
HeaderOf ==
    (L_header01 :> [charge |-> 0, multiplicity |-> 1]) @@
    (L_headerM12 :> [charge |-> -1, multiplicity |-> 2]) @@
    (L_headerLong :> [charge |-> 4000, multiplicity |-> 2])

\* element and coordinates written in the atom lines of the documents
AtomOf ==
    (L_atomH :> [element |-> <<"H">>,
                 x |-> [num |-> "0", den |-> "1"], y |-> [num |-> "0", den |-> "1"],
                 z |-> [num |-> "0", den |-> "1"]]) @@
    (L_atomO :> [element |-> <<"O">>,
                 x |-> [num |-> "0", den |-> "1"], y |-> [num |-> "3", den |-> "2"],
                 z |-> [num |-> "-2", den |-> "1"]]) @@
    (L_atomXx :> [element |-> <<"X", "x">>,
                  x |-> [num |-> "0", den |-> "1"], y |-> [num |-> "0", den |-> "1"],
                  z |-> [num |-> "0", den |-> "1"]]) @@
    (L_atomh :> [element |-> <<"h">>,
                 x |-> [num |-> "0", den |-> "1"], y |-> [num |-> "0", den |-> "1"],
                 z |-> [num |-> "0", den |-> "1"]]) @@
    (L_atomC5 :> [element |-> <<"C">>,
                  x |-> [num |-> "10", den |-> "1"], y |-> [num |-> "-1", den |-> "2"],
                  z |-> [num |-> "2", den |-> "1"]])

\* a geometry section is written on the lines s .. e: a header, then atom
\* lines only, then the closing *
SectionAt(s, e) ==
    /\ s < e
    /\ e < Len(lines)
    /\ Line(lines, s) \in DOMAIN HeaderOf
    /\ Line(lines, e) = L_star
    /\ \A k \in (s + 1)..(e - 1) : Line(lines, k) \in DOMAIN AtomOf

\* the atom the line k is expected to give
ExpectedAtom(k) ==
    [element |-> AtomOf[Line(lines, k)].element,
     x |-> AtomOf[Line(lines, k)].x,
     y |-> AtomOf[Line(lines, k)].y,
     z |-> AtomOf[Line(lines, k)].z,
     line_number |-> k]

\* C7: a geometry section with the header "* xyz c m", well-formed atom lines
\* and a closing * yields charge c, multiplicity m, the format tag xyz and one
\* atom per atom line, in document order, with the element and coordinates as
\* written; "* xyz 0 1" / "H 0 0 0" / "*" gives a valid geometry of one atom.
C7_GeometrySection ==
    (Scanning /\ result.geometry # None) =>
        LET g == result.geometry[1]
            s == g.line_start
        IN  \A e \in 0..MaxLines :
                SectionAt(s, e) =>
                    /\ g.charge = HeaderOf[Line(lines, s)].charge
                    /\ g.multiplicity = HeaderOf[Line(lines, s)].multiplicity
                    /\ g.format_type = S_xyz
                    /\ g.line_end = e
                    /\ g.atoms = [k \in 1..(e - s - 1) |-> ExpectedAtom(s + k)]
                    /\ LinesAt(s, <<L_header01, L_atomH, L_star>>) =>
                           /\ Len(g.atoms) = 1
                           /\ GeometryIsValid(g)

\* the atoms of a list whose element is not in the element set
RECURSIVE InvalidAtoms(_)
InvalidAtoms(atoms) ==
    IF Len(atoms) = 0 THEN <<>>
    ELSE (IF Head(atoms).element \in ELEMENTS THEN <<>> ELSE <<Head(atoms)>>)
         \o InvalidAtoms(Tail(atoms))

\* the errors of a list that are about an element symbol
RECURSIVE ElementErrors(_)
ElementErrors(errors) ==
    IF Len(errors) = 0 THEN <<>>
    ELSE (IF Head(errors).message.text = MsgInvalidElement THEN <<Head(errors)>> ELSE <<>>)
         \o ElementErrors(Tail(errors))

\* C8: when a geometry section is captured, the errors hold one error
\* "Invalid element symbol: <element as written>" for every atom whose element
\* is not in the element set, at the atom's line, in atom order, and no such
\* error for a valid atom.
C8_InvalidElements ==
    (pc = "done" /\ result.geometry # None) =>
        LET bad == InvalidAtoms(result.geometry[1].atoms)
        IN  ElementErrors(result.errors) =
                [k \in 1..Len(bad) |->
                    [message |-> [text |-> MsgInvalidElement, arg |-> bad[k].element],
                     line |-> bad[k].line_number,
                     severity |-> "error"]]

C8_Witness ==
    /\ pc = "done"
    /\ LinesAt(0, <<L_header01, L_atomXx, L_atomH, L_atomh>>)
    /\ ElementErrors(result.errors) =
         <<[message |-> [text |-> MsgInvalidElement, arg |-> <<"X", "x">>],
            line |-> 1, severity |-> "error"],
           [message |-> [text |-> MsgInvalidElement, arg |-> <<"h">>],
            line |-> 3, severity |-> "error"]>>

\* a line of the document is a line "%maxcore N"
HasMaxcoreLine == \E k \in 1..Len(lines) : lines[k] \in DOMAIN MaxcoreOf

\* C9: a document with a directive and a geometry but no %maxcore block
\* yields exactly one warning, "Missing %maxcore ...", and no error about
\* maxcore; in general the warnings are that one warning when no parsed block
\* is named maxcore, and empty when one is.
C9_MaxcoreWarning ==
    /\ (Ended /\ LinesAt(0, <<L_simple, L_header01>>) /\ ~HasMaxcoreLine) =>
          /\ pc = "done"
          /\ result.warnings =
               <<[message |-> [text |-> MsgMissingMaxcore, arg |-> <<>>],
                  line |-> 0, severity |-> "warning"]>>
          /\ \A k \in 1..Len(result.errors) :
               result.errors[k].message.text
                   \in {MsgMissingSimpleInput, MsgNoMethod, MsgNoBasisSet,
                        MsgMissingGeometry, MsgInvalidElement}
    /\ pc = "done" =>
          result.warnings =
              IF \E k \in 1..Len(result.percent_blocks) :
                     result.percent_blocks[k].name = S_maxcore
              THEN <<>>
              ELSE <<[message |-> [text |-> MsgMissingMaxcore, arg |-> <<>>],
                      line |-> 0, severity |-> "warning"]>>

\* C10: a %method block whose text contains d3bj, in any letter case and on
\* any of its lines, has the dispersion D3BJ, never D3.
C10_D3BJWins ==
    Scanning =>
        \A k \in 1..Len(result.percent_blocks) :
            LET b == result.percent_blocks[k]
            IN  (b.name = S_method /\ Contains(Lower(b.raw_content), S_d3bj)) =>
                    /\ "dispersion" \in DOMAIN b.parameters
                    /\ b.parameters["dispersion"] = "D3BJ"

\* C11: parsing is stateless: whatever calls were made before on the same
\* parser, parse(t) gives what the first call on the new parser gave for t,
\* and no call changes the keyword sets of the parser.
C11_Stateless ==
    /\ parser = NewParser
    /\ (Ended /\ first # None /\ first[1].content = content) =>
           Outcome = first[1].outcome

C11_Witness ==
    /\ pc = "done"
    /\ first # None
    /\ first[1].content = content
    /\ content = JoinLines(<<L_header01, L_atomXx>>)
    /\ Len(result.errors) = 2

\* C12: of several top-level lines that start with !, only the first one
\* populates the directive; the later ones leave it unchanged.
C12_FirstDirectiveKept ==
    (Ended /\ LinesAt(0, <<L_simple, L_simpleLower>>)) =>
        /\ pc = "done"
        /\ result.simple_input # None
        /\ result.simple_input[1].raw = L_simple

\* the loop is at a line that starts with * and has a format tag
AtGeometryHeader == InLoop /\ StartsWith(Stripped, <<"*">>) /\ Len(Split(Stripped)) >= 2

\* C13: each geometry section with a valid header replaces the stored
\* geometry, its atoms are those of its own lines only, and no other step of
\* the scan changes the stored geometry: the ParseResult holds the last
\* section parsed.
C13_LastGeometryWins ==
    [][/\ AtGeometryHeader =>
             /\ result'.geometry # None
             /\ result'.geometry[1].line_start = i
             /\ \A k \in 1..Len(result'.geometry[1].atoms) :
                    /\ result'.geometry[1].atoms[k].line_number > i
                    /\ result'.geometry[1].atoms[k].line_number < i'
       /\ (pc = "scan" /\ pc' \in {"scan", "done"} /\ ~AtGeometryHeader) =>
             result'.geometry = result.geometry]_vars

C13_Witness ==
    /\ pc = "done"
    /\ LinesAt(0, <<L_header01, L_atomH, L_star, L_headerM12>>)
    /\ result.geometry # None
    /\ result.geometry[1].line_start = 3
    /\ result.geometry[1].charge = -1
    /\ result.geometry[1].atoms = <<>>

\* C14: a header of four tokens whose charge token or whose multiplicity
\* token is not an integer leaves both the charge 0 and the multiplicity 1;
\* the section is parsed all the same and parse does not raise.
C14_HeaderDefaults ==
    (Scanning /\ result.geometry # None
       /\ Line(lines, result.geometry[1].line_start)
              \in {L_headerBadCharge, L_headerBadMult}) =>
        /\ result.geometry[1].charge = 0
        /\ result.geometry[1].multiplicity = 1

\* C15: a directive without a method gives the error "No method specified
\* ..." at the line of the directive, one without a basis set the error "No
\* basis set specified ..." at that line, and neither error appears when the
\* list is not empty.
C15_DirectiveErrors ==
    /\ (Ended /\ LinesAt(0, <<L_blank, L_simpleNoMethod>>)) =>
          /\ pc = "done"
          /\ \E k \in 1..Len(result.errors) :
                result.errors[k].message.text = MsgNoMethod /\ result.errors[k].line = 1
          /\ \A k \in 1..Len(result.errors) :
                result.errors[k].message.text # MsgNoBasisSet
    /\ (Ended /\ LinesAt(0, <<L_blank, L_simpleNoBasis>>)) =>
          /\ pc = "done"
          /\ \E k \in 1..Len(result.errors) :
                result.errors[k].message.text = MsgNoBasisSet /\ result.errors[k].line = 1
          /\ \A k \in 1..Len(result.errors) :
                result.errors[k].message.text # MsgNoMethod

\* the place of an error in the order of the diagnostics: the simple input
\* (the method before the basis set), then the geometry
Rank(e) ==
    CASE e.message.text = MsgMissingSimpleInput -> 1
      [] e.message.text = MsgNoMethod -> 1
      [] e.message.text = MsgNoBasisSet -> 2
      [] e.message.text = MsgMissingGeometry -> 3
      [] e.message.text = MsgInvalidElement -> 3
      [] OTHER -> 0

\* the errors with the literal text
ErrorsWith(text) == {k \in 1..Len(result.errors) : result.errors[k].message.text = text}

\* C16: the error list of a ParseResult is ordered: the missing directive, or
\* else the missing method and then the missing basis set; after them the
\* missing geometry, or else the invalid elements in the order of the atoms.
C16_ErrorOrder ==
    pc = "done" =>
        /\ \A k \in 1..Len(result.errors) : Rank(result.errors[k]) > 0
        /\ \A j, k \in 1..Len(result.errors) :
              j < k => Rank(result.errors[j]) <= Rank(result.errors[k])
        /\ ErrorsWith(MsgMissingSimpleInput) # {} =>
              ErrorsWith(MsgNoMethod) \cup ErrorsWith(MsgNoBasisSet) = {}
        /\ ErrorsWith(MsgMissingGeometry) # {} => ErrorsWith(MsgInvalidElement) = {}
        /\ \A j, k \in ErrorsWith(MsgInvalidElement) :
              j < k => result.errors[j].line < result.errors[k].line

C16_Witness ==
    /\ pc = "done"
    /\ Len(result.errors) = 4
    /\ result.errors[1].message.text = MsgNoMethod
    /\ result.errors[2].message.text = MsgNoBasisSet
    /\ result.errors[3].message = [text |-> MsgInvalidElement, arg |-> <<"X", "x">>]
    /\ result.errors[4].message = [text |-> MsgInvalidElement, arg |-> <<"h">>]

\* C17: when the server is not in a handler, each document has had one
\* publish of diagnostics per open or change event, and the last one is the
\* list of a parse: errors before warnings; this also for a text with a ! line.
C17_PublishPerEvent ==
    handler = None =>
        \A u \in Uris :
            /\ Len(published[u]) = events[u]
            /\ \A n \in 1..Len(published[u]) : \A j, k \in 1..Len(published[u][n]) :
                  (j < k /\ published[u][n][j].severity = "Warning")
                      => published[u][n][k].severity = "Warning"

\* a step that takes a code-action request
CodeActionStep ==
    request = None /\ request' # None /\ request'[1].method = "textDocument/codeAction"

\* C18: a code-action request is answered with one quick fix per diagnostic
\* whose message contains "Missing %maxcore" and nothing else; each quick fix
\* inserts "%maxcore 4000\n" at line 1, character 0 of the requested
\* document; the step changes no document and publishes nothing.
C18_CodeAction ==
    [][CodeActionStep =>
         LET uri == request'[1].uri
             ds == request'[1].diagnostics
             hits == {k \in 1..Len(ds) :
                        \E a \in 0..Len(MessageChars(ds[k].message)) :
                            StartsWith(SubSeq(MessageChars(ds[k].message), a + 1,
                                              Len(MessageChars(ds[k].message))),
                                       S_MissingMaxcore)}
             actions == response'[1]
         IN  /\ response' # None
             /\ Len(actions) = Cardinality(hits)
             /\ \A k \in 1..Len(actions) :
                   /\ actions[k].kind = "quickfix"
                   /\ DOMAIN actions[k].edit.changes = {uri}
                   /\ Len(actions[k].edit.changes[uri]) = 1
                   /\ actions[k].edit.changes[uri][1].range.start = [line |-> 1, character |-> 0]
                   /\ actions[k].edit.changes[uri][1].range.end = [line |-> 1, character |-> 0]
                   /\ actions[k].edit.changes[uri][1].new_text = L_maxcore4000 \o <<"\n">>
             /\ documents' = documents
             /\ published' = published]_vars

C18_Witness ==
    /\ request # None
    /\ request[1].method = "textDocument/codeAction"
    /\ Len(request[1].diagnostics) = 2
    /\ request[1].diagnostics[1].message.text = MsgMissingGeometry
    /\ request[1].diagnostics[2].message.text = MsgMissingMaxcore
    /\ response # None
    /\ response[1] = <<QuickFix(request[1].uri)>>
    /\ documents[request[1].uri] # None

\* a completion request is being answered, and the text before its cursor,
\* trimmed
AtCompletion == request # None /\ request[1].method = "textDocument/completion"

Prefix ==
    Strip(SubSeq(request[1].line, 1,
                 IF request[1].character < Len(request[1].line)
                 THEN request[1].character ELSE Len(request[1].line)))

\* the set of the suggestions of the response
Suggested == {response[1].items[k] : k \in 1..Len(response[1].items)}

\* the registry block names whose name follows a % in the lowercased prefix
BlocksNamed ==
    {n \in Keys(PERCENT_BLOCKS) :
        \E a \in 1..Len(Prefix) :
            /\ Prefix[a] = "%"
            /\ a + Len(n) <= Len(Prefix)
            /\ Lower(SubSeq(Prefix, a + 1, a + Len(n))) = n}

\* the fixed suggestions of the blocks of a set
FixedSuggestions(names) ==
    UNION {{GetBlockSpecificCompletions(n)[k] :
               k \in 1..Len(GetBlockSpecificCompletions(n))} : n \in names}

\* the prefix is a % followed by blanks and a block name still being typed
NameBeingTyped ==
    \E a \in 1..Len(Prefix) :
        /\ \A k \in 2..a : IsSpace(Prefix[k])
        /\ \A k \in (a + 1)..Len(Prefix) : IsWordChar(Prefix[k])

\* C19 as stated: for every cursor prefix that starts with % after trimming,
\* whatever follows the %, the suggestions include every registry block name
\* and the fixed suggestions of each block the prefix names.
C19_PercentSuggestions ==
    (AtCompletion /\ StartsWith(Prefix, <<"%">>)) =>
        /\ \A n \in Keys(PERCENT_BLOCKS) :
              \E c \in Suggested : c.label = n /\ c.kind = "Keyword"
        /\ FixedSuggestions(BlocksNamed) \subseteq Suggested

\* C19 amended: for a cursor prefix that starts with % after trimming, the
\* suggestions include every registry block name exactly when the % is
\* followed by blanks and then by word characters only, up to the end of the
\* prefix; besides them the suggestions are the fixed suggestions of each
\* registry block whose name follows a % in the lowercased prefix.
C19_PercentSuggestionsAmended ==
    (AtCompletion /\ StartsWith(Prefix, <<"%">>)) =>
        /\ NameBeingTyped =>
              \A n \in Keys(PERCENT_BLOCKS) :
                  \E c \in Suggested : c.label = n /\ c.kind = "Keyword"
        /\ ~NameBeingTyped => \A c \in Suggested : c.kind # "Keyword"
        /\ {c \in Suggested : c.kind # "Keyword"} = FixedSuggestions(BlocksNamed)

C19_Witness ==
    /\ AtCompletion
    /\ Prefix = <<"%", "p", "a", "l", " ", "n", "p", "r", "o", "c", "s">>
    /\ Len(response[1].items) = 1
    /\ response[1].items[1].label = S_nprocs

\* a request for the word under the cursor is being answered
AtWord == request # None /\ request[1].method = "word"

\* C20: the word under the cursor is found for every line and every column,
\* also a column at or beyond the end of the line, without raising: it is the
\* maximal run of alphanumeric characters that touches the column, empty when
\* none does.
C20_WordTotal ==
    AtWord =>
        /\ DOMAIN response[1] = {"word"}
        /\ LET line == request[1].line
               c == IF request[1].character < Len(line)
                    THEN request[1].character ELSE Len(line)
               w == response[1].word
           IN  \E a \in 0..c : \E b \in c..Len(line) :
                 /\ w = SubSeq(line, a + 1, b)
                 /\ \A k \in (a + 1)..b : IsAlnum(line[k])
                 /\ a > 0 => ~IsAlnum(line[a])
                 /\ b < Len(line) => ~IsAlnum(line[b + 1])

\* the labels of the suggestions of the response, in order
Labels == [k \in 1..Len(response[1].items) |-> response[1].items[k].label]

\* the names of a registry table, in order
Names(table) == [k \in 1..Len(table) |-> table[k].name]

\* the full line of the request, trimmed, has the shape of an element symbol
\* (a capital, maybe a small letter), whitespace and the start of a number
ElementShaped ==
    LET st == Strip(request[1].line)
    IN  \E a \in {1, 2} : \E b \in (a + 2)..Len(st) :
            /\ IsAsciiUpper(st[1])
            /\ a = 2 => IsAsciiLower(st[2])
            /\ \A k \in (a + 1)..(b - 1) : IsSpace(st[k])
            /\ IsDigit(st[b]) \/ st[b] \in {"-", "."}

\* C21: a completion request whose trimmed prefix starts with ! gets one
\* suggestion per entry of the DFT-functional, wavefunction-method, basis-set
\* and job-type tables; else one whose full line has the shape of an atom line
\* gets one suggestion per element, in alphabetical order; every other request
\* whose prefix does not start with % gets the empty list.
C21_CompletionContexts ==
    (AtCompletion /\ ~StartsWith(Prefix, <<"%">>)) =>
        IF StartsWith(Prefix, <<"!">>)
        THEN /\ Labels = Names(DFT_FUNCTIONALS) \o Names(WAVEFUNCTION_METHODS)
                           \o Names(BASIS_SETS) \o Names(JOB_TYPES)
             /\ \A j, k \in 1..Len(Labels) : j # k => Labels[j] # Labels[k]
        ELSE IF ElementShaped
        THEN /\ {Labels[k] : k \in 1..Len(Labels)} = ELEMENTS
             /\ Len(Labels) = Cardinality(ELEMENTS)
             /\ \A k \in 1..(Len(Labels) - 1) : StrLess(Labels[k], Labels[k + 1])
             /\ \A k \in 1..Len(Labels) : response[1].items[k].kind = "EnumMember"
        ELSE response[1].items = <<>>

C21_Witness ==
    /\ AtCompletion
    /\ request[1].line = <<"H", " ", "0", " ", "0", " ", "0">>
    /\ request[1].character = 0
    /\ Len(response[1].items) = 86
    /\ response[1].items[1].label = <<"A", "g">>
    /\ response[1].items[86].label = <<"Z", "r">>

\* C22: the scan terminates.  Every iteration of the loop begins at a line
\* of the document; one that goes on to a next iteration leaves the line
\* index greater than it was, at most one past the number of lines; the loop
\* is left only by the return of parse or by an exception; and a
\* call never begins more iterations than the document has lines.
C22_ScanTerminates ==
    /\ [][pc = "scan" =>
             /\ pc' \in {"scan", "done", "raised"}
             /\ iterations' > iterations => i < Len(lines)
             /\ pc' = "scan" =>
                   /\ iterations' = iterations + 1
                   /\ i' > i
                   /\ i' <= Len(lines) + 1]_vars
    /\ [](pc \in {"scan", "done", "raised"} =>
             /\ iterations <= Len(lines)
             /\ pc # "raised" => iterations <= i)

C22_Witness ==
    /\ pc = "done"
    /\ LinesAt(0, <<L_blank, L_header01, L_atomH, L_star>>)
    /\ Len(lines) = 4
    /\ i = 4
    /\ iterations = 2

\* the loop is at a line that opens a multi-line block which no line 'end'
\* closes before the end of the document
AtUnterminatedBlock ==
    /\ InLoop
    /\ StartsWith(Stripped, <<"%">>)
    /\ LET a == FirstNonSpace(Stripped, 2)
       IN  a <= Len(Stripped) /\ IsWordChar(Stripped[a])
    /\ ~Contains(Lower(Stripped), S_end)
    /\ \A k \in (i + 1)..(Len(lines) - 1) : Lower(Strip(Line(lines, k))) # S_end

\* the literal texts of the findings _run_diagnostics can make
ErrorTexts ==
    {MsgMissingSimpleInput, MsgNoMethod, MsgNoBasisSet, MsgMissingGeometry,
     MsgInvalidElement}

\* C23: a multi-line block that no 'end' line closes is emitted all the same:
\* its raw content is its opener, stripped, and every following line of the
\* document; the step makes no finding, and the findings of the ParseResult
\* are of the kinds of the diagnostics only.
C23_UnterminatedBlock ==
    /\ [][AtUnterminatedBlock =>
             /\ Len(result'.percent_blocks) = Len(result.percent_blocks) + 1
             /\ LET b == result'.percent_blocks[Len(result'.percent_blocks)]
                IN  /\ b.line_start = i
                    /\ b.raw_content =
                          JoinLines(<<Stripped>> \o SubSeq(lines, i + 2, Len(lines)))
             /\ result'.errors = result.errors
             /\ result'.warnings = result.warnings
             /\ i' > Len(lines) - 1]_vars
    /\ [](pc = "done" =>
             /\ \A k \in 1..Len(result.errors) :
                   result.errors[k].message.text \in ErrorTexts
             /\ \A k \in 1..Len(result.warnings) :
                   result.warnings[k].message.text = MsgMissingMaxcore)

\* the line k of the document starts with * and has fewer than two tokens
BareStar(k) ==
    StartsWith(Strip(Line(lines, k)), <<"*">>) /\ Len(Split(Strip(Line(lines, k)))) < 2

\* C24: a top-level * line with fewer than two tokens opens no geometry
\* section: the step changes nothing of the ParseResult and moves the scan to
\* the next line; and a parsed document whose * lines are all of that kind has
\* no geometry and the missing-geometry error.
C24_BareStar ==
    /\ [][(InLoop /\ BareStar(i)) =>
             /\ result' = result
             /\ i' = i + 1
             /\ pc' = "scan"]_vars
    /\ [](( /\ pc = "done"
            /\ \A k \in 0..(Len(lines) - 1) :
                  StartsWith(Strip(Line(lines, k)), <<"*">>) => BareStar(k)) =>
             /\ result.geometry = None
             /\ \E k \in 1..Len(result.errors) :
                   result.errors[k].message.text = MsgMissingGeometry)

C24_Witness ==
    /\ pc = "done"
    /\ lines = <<L_star, L_atomH, L_star>>
    /\ i = 3
    /\ iterations = 3
    /\ result.geometry = None
    /\ Len(result.errors) = 2
    /\ result.errors[2].message.text = MsgMissingGeometry

\* the index of the first line after s that is a lone *, the number of lines
\* if there is none
RECURSIVE TerminatorAfter(_)
TerminatorAfter(s) ==
    IF s + 1 >= Len(lines) \/ Strip(Line(lines, s + 1)) = <<"*">> THEN s + 1
    ELSE TerminatorAfter(s + 1)

\* the lines of the section opened at line s that are written as atoms: an
\* element, three numbers, and maybe more fields
AtomLinesOf(s) ==
    {k \in (s + 1)..(TerminatorAfter(s) - 1) : Line(lines, k) \in DOMAIN AtomOf}

\* C25: the atoms of a geometry section are its lines of at least four fields
\* whose fields 1 to 3 are numbers, in document order, each with the index of
\* its line; the other lines before the terminator (fewer than four fields,
\* or a coordinate that is not a number) give no atom, and the section makes
\* no finding.
C25_AtomLines ==
    [][AtGeometryHeader =>
         LET atoms == result'.geometry[1].atoms
         IN  /\ Len(atoms) = Cardinality(AtomLinesOf(i))
             /\ \A k \in 1..Len(atoms) :
                   /\ atoms[k].line_number \in AtomLinesOf(i)
                   /\ atoms[k] = ExpectedAtom(atoms[k].line_number)
             /\ \A j, k \in 1..Len(atoms) :
                   j < k => atoms[j].line_number < atoms[k].line_number
             /\ result'.errors = result.errors
             /\ result'.warnings = result.warnings]_vars

C25_Witness ==
    /\ pc = "done"
    /\ lines = <<L_headerBadMult, L_atomBadZ, L_atomC5, L_palInline>>
    /\ result.geometry # None
    /\ Len(result.geometry[1].atoms) = 1
    /\ result.geometry[1].atoms[1].line_number = 2
    /\ result.geometry[1].atoms[1].y = [num |-> "-1", den |-> "2"]
    /\ Len(result.errors) = 1

\* C26: a block opened by a line %maxcore whose value is not an integer is
\* emitted with the name maxcore and without the parameter memory; it brings
\* no error about maxcore, and no "Missing %maxcore" warning is given.
C26_BadMaxcoreValue ==
    Scanning =>
        \A k \in 1..Len(result.percent_blocks) :
            LET b == result.percent_blocks[k]
            IN  Line(lines, b.line_start) = L_maxcoreBad =>
                    /\ b.name = S_maxcore
                    /\ "memory" \notin DOMAIN b.parameters
                    /\ pc = "done" =>
                          /\ result.warnings = <<>>
                          /\ \A j \in 1..Len(result.errors) :
                                result.errors[j].message.text \in ErrorTexts

\* the span line_start..line_end of a block or section s is well formed in a
\* document of n lines
SpanOk(s, n) == s.line_start <= s.line_end /\ s.line_end < n

\* C27: in a returned ParseResult every settings block and the geometry
\* section have line_start <= line_end, and line_end is the index of a line
\* of the document (smaller than the number of lines), for single-line
\* blocks, terminated sections and sections that run to the end.
C27_Spans ==
    pc = "done" =>
        /\ \A k \in 1..Len(result.percent_blocks) :
               SpanOk(result.percent_blocks[k], Len(lines))
        /\ result.geometry # None => SpanOk(result.geometry[1], Len(lines))

\* the line s of the document opens a multi-line settings block
OpensBlock(s) ==
    LET line == Strip(Line(lines, s))
    IN  /\ StartsWith(line, <<"%">>)
        /\ LET a == FirstNonSpace(line, 2)
           IN  a <= Len(line) /\ IsWordChar(line[a])
        /\ ~Contains(Lower(line), S_end)

\* the line s of the document opens a geometry section
OpensSection(s) ==
    StartsWith(Strip(Line(lines, s)), <<"*">>) /\ ~BareStar(s)

\* the index of the first line after s that is the word end, the number of
\* lines if there is none
RECURSIVE EndAfter(_)
EndAfter(s) ==
    IF s + 1 >= Len(lines) \/ Lower(Strip(Line(lines, s + 1))) = S_end THEN s + 1
    ELSE EndAfter(s + 1)

\* the last line of the construct that the line s opens: its terminator, the
\* last line of the document if it has none, s itself if it opens no span
LastOfSpan(s) ==
    LET t == IF OpensBlock(s) THEN EndAfter(s)
             ELSE IF OpensSection(s) THEN TerminatorAfter(s)
             ELSE s
    IN  IF t < Len(lines) THEN t ELSE Len(lines) - 1

\* the lines at which the constructs of the ParseResult start
Starts ==
    {result.percent_blocks[k].line_start : k \in 1..Len(result.percent_blocks)}
        \cup (IF result.geometry = None THEN {} ELSE {result.geometry[1].line_start})

\* C28: every line is consumed by at most one construct: the scan interprets
\* a line, adds at most one construct and only one that starts at that line,
\* and goes on after the last line of its span, terminator included; so no
\* construct of the ParseResult starts inside the span of another, and a
\* directive that raises is not inside one either.
C28_OneConstructPerLine ==
    /\ [][InLoop =>
             /\ pc' = "scan" => i' > LastOfSpan(i)
             /\ Len(result'.percent_blocks) <= Len(result.percent_blocks) + 1
             /\ \A k \in 1..Len(result'.percent_blocks) :
                    IF k <= Len(result.percent_blocks)
                    THEN result'.percent_blocks[k] = result.percent_blocks[k]
                    ELSE result'.percent_blocks[k].line_start = i
             /\ result'.geometry # result.geometry =>
                    /\ result'.geometry # None
                    /\ result'.geometry[1].line_start = i
                    /\ result'.percent_blocks = result.percent_blocks
             /\ result'.simple_input # result.simple_input =>
                    /\ StartsWith(Stripped, <<"!">>)
                    /\ result'.percent_blocks = result.percent_blocks
                    /\ result'.geometry = result.geometry]_vars
    /\ [](pc \in {"scan", "done", "raised"} =>
             \A s \in Starts :
                 /\ \A t \in Starts : ~(s < t /\ t <= LastOfSpan(s))
                 /\ pc \in {"scan", "raised"} => i > LastOfSpan(s))

C28_Witness ==
    /\ pc = "done"
    /\ lines = <<L_header01, L_palInline, L_star, L_maxcore4000>>
    /\ iterations = 2
    /\ Starts = {0, 3}
    /\ Len(result.percent_blocks) = 1
    /\ result.geometry # None
    /\ result.geometry[1].atoms = <<>>
    /\ ~GeometryIsValid(result.geometry[1])
    /\ result.errors = <<Finding(MsgMissingSimpleInput, <<>>, 0, "error")>>

\* a hover request is being answered
AtHover == request # None /\ request[1].method = "textDocument/hover"

\* the entries of the four keyword tables
Keywords ==
    {DFT_FUNCTIONALS[k] : k \in 1..Len(DFT_FUNCTIONALS)}
        \cup {[name |-> WAVEFUNCTION_METHODS[k].name,
               description |-> WAVEFUNCTION_METHODS[k].description] :
                  k \in 1..Len(WAVEFUNCTION_METHODS)}
        \cup {BASIS_SETS[k] : k \in 1..Len(BASIS_SETS)}
        \cup {[name |-> JOB_TYPES[k].name, description |-> JOB_TYPES[k].description] :
                  k \in 1..Len(JOB_TYPES)}

\* the keyword kw is written in the line from the offset a on, as a token of
\* its own, and the column c is inside it
Occurs(kw, line, a, c) ==
    /\ a + Len(kw) <= Len(line)
    /\ SubSeq(line, a + 1, a + Len(kw)) = kw
    /\ a > 0 => IsSpace(line[a])
    /\ a + Len(kw) < Len(line) => IsSpace(line[a + Len(kw) + 1])
    /\ a <= c /\ c < a + Len(kw)

\* C30: a hover at a column inside a keyword of the four tables, written in
\* its spelling of the table, answers with the description of that keyword:
\* never nothing, never the description of another keyword.
C30_HoverKeyword ==
    AtHover =>
        \A kw \in Keywords : \A a \in 0..Len(request[1].line) :
            Occurs(kw.name, request[1].line, a, request[1].character) =>
                /\ DOMAIN response[1] = {"hover"}
                /\ response[1].hover # None
                /\ response[1].hover[1].description = kw.description
====
